---- MODULE Spec2Model ----
(***************************************************************************)
(* The authoritative game server of tibiaclone (src/unnamed/part_004):     *)
(* the world model (map, players, monsters, fireballs), the session        *)
(* registry (wss.clients), the intent handler (handleClientMessage), the   *)
(* respawn timers and the monster AI tick (gameLoop).                      *)
(*                                                                         *)
(* Every handler of the single-threaded event loop is one action.          *)
(* Math.random() is an input: a draw r in 0..RandScale-1 standing for the  *)
(* value r/RandScale, taken from small sets of draws.  Date.now() is the   *)
(* variable now, in milliseconds since server start.                       *)
(***************************************************************************)
EXTENDS Integers, Sequences, FiniteSets, TLC

\* ---------------------------------------------------------------- CONFIG
MAP_WIDTH == 20
MAP_HEIGHT == 15
MONSTER_COUNT == 3

MONSTER_HEALTH == 50
PLAYER_HEALTH == 100
FIREBALL_DAMAGE == 15
RESPAWN_DELAY == 5000
MOVE_INTERVAL == 500
SPAWN_ATTEMPTS == 100

\* Math.random() draws are r/RandScale, r in 0..RandScale-1.
RandScale == 1000

\* ---------------------------------------------------------------- bounds
\* Connections accepted over the run (caps gameState.nextPlayerId).
MaxPlayerId == 2
\* Monsters ever created (caps the kills, each of which schedules a spawn).
MaxMonsterId == 4
\* Length of the explicit prefix of a stream of position samples.
MaxHead == 1
\* Date.now() stops advancing here unless a timer is still pending.
MaxTime == 5000
\* How far below zero the model follows a player's health.
MaxOverkill == 10
\* Fireball records the server keeps (gameState.fireballs only grows).
MaxFireballs == 2
\* Frames in flight on one connection in one direction: a client sends, and
\* the server handles an event, only below it
MaxInFlight == 1

\* frames of the single-player page explored
MaxFrames == 8

\* milliseconds a tick may come after a multiple of half the move interval
MaxLate == 2

\* states the editor saves in one explored session of edits
MaxSaves == 4

VARIABLES
    map,           \* gameState.map: map[y][x] is a tile name
    players,       \* gameState.players: playerId -> player record
    nextPlayerId,  \* gameState.nextPlayerId
    clients,       \* wss.clients: the session of player id -> readyState
    monsters,      \* gameState.monsters: a sequence of monster records
    fireballs,     \* gameState.fireballs
    timers,        \* pending setTimeout(respawn) deadlines, oldest first
    now,           \* Date.now()
    idSeq,         \* number of monsters created so far (ids are distinct)
    last,          \* the event the server handled last, with its inputs
    sent,          \* what that handler sent: a sequence of [to, msg]
    hist,          \* history of monsterDied / setTimeout / respawns
    game,          \* the client of a session: its game object (the replica)
    toClient,      \* frames the server sent a session, not yet delivered
    toServer,      \* frames a session's client sent, not yet delivered
    single,        \* the single-player page: its game object and Date.now()
    editor         \* the map editor page: its editor object

vars == <<map, players, nextPlayerId, clients, monsters, fireballs, timers,
          now, idSeq, last, sent, hist, game, toClient, toServer, single,
          editor>>

\* The server taken alone: no client runs and no frame travels.
Offline == UNCHANGED <<game, toClient, toServer, single, editor>>

\* The single-player page and the map editor page are separate documents:
\* nothing the server or a multiplayer client does touches them.
Standalone == UNCHANGED <<single, editor>>

\* A page that has not been opened.
Closed == [page |-> "closed"]

\* ------------------------------------------------------------ the map
TILES ==
    [GRASS |-> [walkable |-> TRUE],
     WATER |-> [walkable |-> FALSE],
     TREE  |-> [walkable |-> FALSE],
     STONE |-> [walkable |-> FALSE],
     DIRT  |-> [walkable |-> TRUE]]

Xs == 0 .. (MAP_WIDTH - 1)
Ys == 0 .. (MAP_HEIGHT - 1)

\* rand < num/den for the draw r
RandLess(r, num, den) == r * den < num * RandScale

\* Math.floor(Math.random() * n) for the draw r
RandInt(r, n) == (r * n) \div RandScale

IsBorder(x, y) ==
    x = 0 \/ x = MAP_WIDTH - 1 \/ y = 0 \/ y = MAP_HEIGHT - 1

\* generateMap without the test for the border
generateMap_NoBorder(rnd) ==
    [y \in Ys |->
        [x \in Xs |->
            IF RandLess(rnd[y][x], 7, 10) THEN "GRASS"
            ELSE IF RandLess(rnd[y][x], 8, 10) THEN "DIRT"
            ELSE IF RandLess(rnd[y][x], 9, 10) THEN "TREE"
            ELSE IF RandLess(rnd[y][x], 95, 100) THEN "STONE"
            ELSE "WATER"]]

\* rnd[y][x] is the draw made for cell (x, y)
generateMap(rnd) ==
    [y \in Ys |->
        [x \in Xs |->
            IF IsBorder(x, y) THEN "WATER"
            ELSE IF RandLess(rnd[y][x], 7, 10) THEN "GRASS"
            ELSE IF RandLess(rnd[y][x], 8, 10) THEN "DIRT"
            ELSE IF RandLess(rnd[y][x], 9, 10) THEN "TREE"
            ELSE IF RandLess(rnd[y][x], 95, 100) THEN "STONE"
            ELSE "WATER"]]

\* A draw that gives each tile type.
TileDraw ==
    [GRASS |-> 0,
     DIRT  |-> (75 * RandScale) \div 100,
     TREE  |-> (85 * RandScale) \div 100,
     STONE |-> (92 * RandScale) \div 100,
     WATER |-> (97 * RandScale) \div 100]

\* The maps explored: a small clearing in an otherwise blocked interior.
\* The draws made for the border cells are draws of walkable tiles.
Clearing == {c \in Xs \X Ys : c[1] \in 2..4 /\ c[2] \in 2..3}

MapDraws ==
    { [y \in Ys |-> [x \in Xs |->
          IF <<x, y>> \in Clearing \/ IsBorder(x, y) THEN TileDraw.GRASS
          ELSE TileDraw.TREE]],
      [y \in Ys |-> [x \in Xs |->
          IF <<x, y>> = <<2, 2>> THEN TileDraw.STONE
          ELSE IF <<x, y>> = <<4, 3>> \/ IsBorder(x, y) THEN TileDraw.DIRT
          ELSE IF <<x, y>> \in Clearing THEN TileDraw.GRASS
          ELSE IF y > 7 THEN TileDraw.WATER ELSE TileDraw.TREE]] }

\* gameState.map[y][x].walkable, for the map m
WalkableIn(m, x, y) == TILES[m[y][x]].walkable

Walkable(x, y) == WalkableIn(map, x, y)

\* The maps the server may have generated at start.
Maps == {generateMap(d) : d \in MapDraws}

\* The draws of a map with a field of grass (2..6 by 2..5) around one stone:
\* the tile diagonally between (3,2) and (5,4).
Field == {c \in Xs \X Ys : c[1] \in 2..6 /\ c[2] \in 2..5}

FieldDraws ==
    { [y \in Ys |-> [x \in Xs |->
          IF <<x, y>> = <<4, 3>> THEN TileDraw.STONE
          ELSE IF <<x, y>> \in Field \/ IsBorder(x, y) THEN TileDraw.GRASS
          ELSE TileDraw.TREE]] }

FieldMaps == {generateMap(d) : d \in FieldDraws}

\* isValidMove without the look-up of the tile's walkable flag
isValidMove_NoTile(x, y) ==
    ~ (x < 0 \/ x >= MAP_WIDTH \/ y < 0 \/ y >= MAP_HEIGHT)

isValidMove(x, y) ==
    IF x < 0 \/ x >= MAP_WIDTH \/ y < 0 \/ y >= MAP_HEIGHT
    THEN FALSE
    ELSE Walkable(x, y)

\* ------------------------------------------------- streams of samples
\* A stream of Math.random() pairs: head[1], head[2], ..., then tail for
\* ever.  Sample(s, k) is the k-th pair [rx, ry] drawn.
PosDraws == {0, (15 * RandScale) \div 100}

Max(S) == CHOOSE a \in S : \A b \in S : b <= a

DrawPair == [rx : PosDraws, ry : PosDraws]

RECURSIVE SeqsUpTo(_, _)
SeqsUpTo(S, n) ==
    IF n = 0 THEN {<<>>}
    ELSE LET shorter == SeqsUpTo(S, n - 1)
         IN  shorter \cup
             {Append(q, e) : q \in {t \in shorter : Len(t) = n - 1}, e \in S}

Streams == [head : SeqsUpTo(DrawPair, MaxHead), tail : DrawPair]

\* Streams of spawnMonster that hit a walkable tile at once or after one
\* sample on the border.
RetryStreams ==
    {s \in Streams : /\ s.tail = [rx |-> Max(PosDraws), ry |-> Max(PosDraws)]
                      /\ s.head \in {<< >>, << [rx |-> 0, ry |-> 0] >>}}

Sample(s, k) == IF k <= Len(s.head) THEN s.head[k] ELSE s.tail

\* spawnMonster's do-while: the first sample on a walkable tile.  A stream
\* with no such sample keeps the loop running: it is not a run that returns.
MonsterCell(d) ==
    [x |-> RandInt(d.rx, MAP_WIDTH), y |-> RandInt(d.ry, MAP_HEIGHT)]

RECURSIVE spawnMonsterLoop(_, _)
spawnMonsterLoop(s, k) ==
    LET c == MonsterCell(Sample(s, k))
    IN  IF ~ Walkable(c.x, c.y)
        THEN IF k > Len(s.head) THEN [x |-> -1, y |-> -1]
             ELSE spawnMonsterLoop(s, k + 1)
        ELSE c

Returns(s) == spawnMonsterLoop(s, 1).x >= 0

spawnMonster(s, id, t) ==
    LET c == spawnMonsterLoop(s, 1)
    IN  [id |-> id, x |-> c.x, y |-> c.y,
         health |-> MONSTER_HEALTH, maxHealth |-> MONSTER_HEALTH,
         lastMove |-> t]

\* a sample taken over the whole map
PlayerCell_WholeMap(d) ==
    [x |-> RandInt(d.rx, MAP_WIDTH), y |-> RandInt(d.ry, MAP_HEIGHT)]

\* findSpawnPosition's do-while: stop at a walkable sample or at attempt 100.
PlayerCell(d) ==
    [x |-> RandInt(d.rx, MAP_WIDTH - 4) + 2,
     y |-> RandInt(d.ry, MAP_HEIGHT - 4) + 2]

RECURSIVE findSpawnLoop(_, _, _)
findSpawnLoop(m, s, attempts) ==
    LET c == PlayerCell(Sample(s, attempts))
    IN  IF ~ WalkableIn(m, c.x, c.y) /\ attempts < SPAWN_ATTEMPTS
        THEN findSpawnLoop(m, s, attempts + 1)
        ELSE [x |-> c.x, y |-> c.y, attempts |-> attempts]

\* The loop's result for every map and stream, computed once.
SpawnPositions ==
    [m \in Maps \cup FieldMaps, s \in Streams |-> findSpawnLoop(m, s, 1)]

findSpawnPosition(s) == SpawnPositions[map, s]

\* ------------------------------------------------------- dispatching
\* wss.clients in insertion order, which is the order of the ids.
RECURSIVE Ascending(_)
Ascending(S) ==
    IF S = {} THEN <<>>
    ELSE LET m == CHOOSE a \in S : \A b \in S : a <= b
         IN  <<m>> \o Ascending(S \ {m})

NoClient == 0

\* broadcast without the test of readyState
broadcast_AnyState(message, excludeClient, cl) ==
    LET targets == {c \in DOMAIN cl : c # excludeClient}
        order == Ascending(targets)
    IN  [i \in 1..Len(order) |-> [to |-> order[i], msg |-> message]]

\* broadcast(message, excludeClient) over the clients cl
broadcast(message, excludeClient, cl) ==
    LET targets == {c \in DOMAIN cl : c # excludeClient /\ cl[c] = "OPEN"}
        order == Ascending(targets)
    IN  [i \in 1..Len(order) |-> [to |-> order[i], msg |-> message]]

sendToClient(client, message, cl) ==
    IF client \in DOMAIN cl /\ cl[client] = "OPEN"
    THEN << [to |-> client, msg |-> message] >>
    ELSE <<>>

\* Array.from(gameState.players.values()): insertion order
PlayerArray(ps) ==
    LET order == Ascending(DOMAIN ps)
    IN  [i \in 1..Len(order) |-> ps[order[i]]]

\* ------------------------------------------------------------- start
EmptyHist ==
    [died |-> [i \in 1..MaxMonsterId |-> 0],
     scheduled |-> [i \in 1..MaxMonsterId |-> 0],
     fb |-> [i \in 1..MaxMonsterId |-> 0],
     melee |-> [i \in 1..MaxMonsterId |-> 0],
     hitBy |-> [i \in 1..MaxMonsterId |-> {}],
     diedAt |-> <<>>,
     spawnedAt |-> <<>>,
     ids |-> <<>>,
     garbled |-> {},
     movedAt |-> [i \in 1..MaxMonsterId |-> <<>>]]

\* server.listen's callback: initGame(), for the maps generateMap may return
initGameOn(maps) ==
    /\ map \in maps
    /\ \E ss \in [1..MONSTER_COUNT -> RetryStreams] :
          /\ \A i \in 1..MONSTER_COUNT : Returns(ss[i])
          /\ monsters = [i \in 1..MONSTER_COUNT |-> spawnMonster(ss[i], i, 0)]
    /\ idSeq = MONSTER_COUNT

initGame == initGameOn(Maps)

\* The ids spawnMonster gives the first monsters.  An id is the double
\* Date.now() + Math.random(): next to a time in milliseconds of this
\* century two doubles are 2^-12 apart, so the ids made within one
\* millisecond are among 4096 values and two of them can be the same.
StartIds == { <<1, 2, 3>>, <<1, 1, 3>> }

\* initGame() with the ids drawn
initGameDrawn(maps) ==
    /\ map \in maps
    /\ \E ss \in [1..MONSTER_COUNT -> RetryStreams], ids \in StartIds :
          /\ \A i \in 1..MONSTER_COUNT : Returns(ss[i])
          /\ monsters = [i \in 1..MONSTER_COUNT |->
                            spawnMonster(ss[i], ids[i], 0)]
    /\ idSeq = MONSTER_COUNT

\* What server.listen's callback finds beside the monsters and the map
started ==
    /\ players = << >>
    /\ nextPlayerId = 1
    /\ clients = << >>
    /\ fireballs = << >>
    /\ timers = << >>
    /\ now = 0
    /\ last = [op |-> "listen"]
    /\ sent = << >>
    /\ hist = EmptyHist
    /\ game = << >>
    /\ toClient = << >>
    /\ toServer = << >>
    /\ single = Closed
    /\ editor = Closed

\* The state when the server starts listening, for the map generated
listen(maps) == initGameOn(maps) /\ started

listenDrawn(maps) == initGameDrawn(maps) /\ started

Init == listen(Maps)

\* ------------------------------------------------ session registry
\* The body of wss.on('connection') for the id the new player is given and
\* the client left out of the playerJoined broadcast.
accept(s, playerId, excludeClient) ==
    /\ nextPlayerId <= MaxPlayerId
    /\ LET spawnPos == findSpawnPosition(s)
           player == [id |-> playerId, x |-> spawnPos.x, y |-> spawnPos.y,
                      health |-> PLAYER_HEALTH, maxHealth |-> PLAYER_HEALTH]
           ps == players @@ (playerId :> player)
           cl == clients @@ (playerId :> "OPEN")
       IN  /\ nextPlayerId' = nextPlayerId + 1
           /\ players' = ps
           /\ clients' = cl
           /\ sent' = sendToClient(playerId,
                          [type |-> "init", playerId |-> playerId, map |-> map,
                           players |-> PlayerArray(ps), monsters |-> monsters],
                          cl)
                      \o broadcast([type |-> "playerJoined", player |-> player],
                                   excludeClient, cl)
           /\ hist' = [hist EXCEPT !.ids = Append(@, playerId)]
    /\ UNCHANGED <<map, monsters, fireballs, timers, now, idSeq>>

connection(s, playerId, excludeClient) ==
    /\ accept(s, playerId, excludeClient)
    /\ last' = [op |-> "connection", sid |-> playerId]

\* The same handler, with the samples of findSpawnPosition and the number
\* of them it took noted.
ConnectTraced(s) ==
    /\ accept(s, nextPlayerId, nextPlayerId)
    /\ last' = [op |-> "connection", sid |-> nextPlayerId, stream |-> s,
                attempts |-> findSpawnPosition(s).attempts]

\* The least id no player holds
FreeId == CHOOSE i \in 1..(MaxPlayerId + 1) :
              /\ i \notin DOMAIN players
              /\ \A j \in 1..(i - 1) : j \in DOMAIN players

\* wss.on('connection') giving the new player the least free id
Connect_ReuseId(s) == connection(s, FreeId, FreeId)

\* wss.on('connection') with playerJoined broadcast to every client
Connect_JoinedToAll(s) == connection(s, nextPlayerId, NoClient)

\* wss.on('connection'): playerId = gameState.nextPlayerId++, and ws is the
\* client excluded from the playerJoined broadcast
Connect(s) == connection(s, nextPlayerId, nextPlayerId)

\* The transport starts closing a socket: readyState leaves OPEN before the
\* 'close' event is emitted.  No handler of the server runs.
SockClosing(sid) ==
    /\ sid \in DOMAIN clients
    /\ clients[sid] = "OPEN"
    /\ clients' = [clients EXCEPT ![sid] = "CLOSING"]
    /\ last' = [op |-> "closing", sid |-> sid]
    /\ sent' = << >>
    /\ UNCHANGED <<map, players, nextPlayerId, monsters, fireballs, timers,
                   now, idSeq, hist>>

\* ws.on('close') without gameState.players.delete(playerId)
Close_KeepPlayer(sid) ==
    /\ sid \in DOMAIN clients
    /\ LET cl == [c \in DOMAIN clients \ {sid} |-> clients[c]]
       IN  /\ clients' = cl
           /\ players' = players
           /\ sent' = broadcast([type |-> "playerLeft", playerId |-> sid],
                                NoClient, cl)
    /\ last' = [op |-> "close", sid |-> sid]
    /\ UNCHANGED <<map, nextPlayerId, monsters, fireballs, timers, now,
                   idSeq, hist>>

\* ws.on('close') that also clears the pending respawn timers
Close_CancelTimers(sid) ==
    /\ sid \in DOMAIN clients
    /\ LET cl == [c \in DOMAIN clients \ {sid} |-> clients[c]]
       IN  /\ clients' = cl
           /\ players' = [p \in DOMAIN players \ {sid} |-> players[p]]
           /\ sent' = broadcast([type |-> "playerLeft", playerId |-> sid],
                                NoClient, cl)
    /\ timers' = << >>
    /\ last' = [op |-> "close", sid |-> sid]
    /\ UNCHANGED <<map, nextPlayerId, monsters, fireballs, now, idSeq, hist>>

\* ws.on('close'): the socket has left wss.clients when the handler runs
Close(sid) ==
    /\ sid \in DOMAIN clients
    /\ LET cl == [c \in DOMAIN clients \ {sid} |-> clients[c]]
       IN  /\ clients' = cl
           /\ players' = [p \in DOMAIN players \ {sid} |-> players[p]]
           /\ sent' = broadcast([type |-> "playerLeft", playerId |-> sid],
                                NoClient, cl)
    /\ last' = [op |-> "close", sid |-> sid]
    /\ UNCHANGED <<map, nextPlayerId, monsters, fireballs, timers, now,
                   idSeq, hist>>

\* ---------------------------------------------------- intent handler
\* ws.on('message') closing the connection of a frame it cannot parse
MsgUnparseable_Terminate(sid) ==
    /\ sid \in DOMAIN clients
    /\ clients[sid] = "OPEN"
    /\ clients' = [clients EXCEPT ![sid] = "CLOSING"]
    /\ sent' = << >>
    /\ last' = [op |-> "garbled", sid |-> sid]
    /\ hist' = [hist EXCEPT !.garbled = @ \cup {sid}]
    /\ UNCHANGED <<map, players, nextPlayerId, monsters, fireballs, timers,
                   now, idSeq>>

\* ws.on('message') for a frame JSON.parse throws on: the catch logs the
\* error and the handler returns
MsgUnparseable(sid) ==
    /\ sid \in DOMAIN clients
    /\ clients[sid] = "OPEN"
    /\ sent' = << >>
    /\ last' = [op |-> "garbled", sid |-> sid]
    /\ hist' = [hist EXCEPT !.garbled = @ \cup {sid}]
    /\ UNCHANGED <<map, players, nextPlayerId, clients, monsters, fireballs,
                   timers, now, idSeq>>

\* case 'move' answering a refused move with a message to the sender
MsgMove_Refusal(sid, x, y) ==
    /\ sid \in DOMAIN clients
    /\ clients[sid] = "OPEN"
    /\ sid \in DOMAIN players
    /\ IF isValidMove(x, y)
       THEN /\ players' = [players EXCEPT ![sid].x = x, ![sid].y = y]
            /\ sent' = broadcast([type |-> "playerMoved", playerId |-> sid,
                                  x |-> x, y |-> y], NoClient, clients)
       ELSE /\ players' = players
            /\ sent' = sendToClient(sid, [type |-> "moveRejected"], clients)
    /\ last' = [op |-> "move", sid |-> sid, x |-> x, y |-> y]
    /\ UNCHANGED <<map, nextPlayerId, clients, monsters, fireballs, timers,
                   now, idSeq, hist>>

\* handleClientMessage, case 'move'
MsgMove(sid, x, y) ==
    /\ sid \in DOMAIN clients
    /\ clients[sid] = "OPEN"
    /\ sid \in DOMAIN players
    /\ IF isValidMove(x, y)
       THEN /\ players' = [players EXCEPT ![sid].x = x, ![sid].y = y]
            /\ sent' = broadcast([type |-> "playerMoved", playerId |-> sid,
                                  x |-> x, y |-> y], NoClient, clients)
       ELSE /\ players' = players
            /\ sent' = << >>
    /\ last' = [op |-> "move", sid |-> sid, x |-> x, y |-> y]
    /\ UNCHANGED <<map, nextPlayerId, clients, monsters, fireballs, timers,
                   now, idSeq, hist>>

\* case 'fireball' refusing a player whose last cast has the same timestamp
MsgFireball_Cooldown(sid, targetX, targetY) ==
    /\ sid \in DOMAIN clients
    /\ clients[sid] = "OPEN"
    /\ sid \in DOMAIN players
    /\ Len(fireballs) < MaxFireballs
    /\ \A i \in 1..Len(fireballs) :
          fireballs[i].playerId = sid => fireballs[i].timestamp < now
    /\ LET fireball == [id |-> Len(fireballs) + 1, playerId |-> sid,
                        startX |-> players[sid].x, startY |-> players[sid].y,
                        targetX |-> targetX, targetY |-> targetY,
                        timestamp |-> now]
       IN  /\ fireballs' = Append(fireballs, fireball)
           /\ sent' = broadcast([type |-> "fireballCast", fireball |-> fireball],
                                NoClient, clients)
    /\ last' = [op |-> "fireball", sid |-> sid]
    /\ UNCHANGED <<map, players, nextPlayerId, clients, monsters, timers,
                   now, idSeq, hist>>

\* handleClientMessage, case 'fireball'
MsgFireball(sid, targetX, targetY) ==
    /\ sid \in DOMAIN clients
    /\ clients[sid] = "OPEN"
    /\ sid \in DOMAIN players
    /\ Len(fireballs) < MaxFireballs
    /\ LET fireball == [id |-> Len(fireballs) + 1, playerId |-> sid,
                        startX |-> players[sid].x, startY |-> players[sid].y,
                        targetX |-> targetX, targetY |-> targetY,
                        timestamp |-> now]
       IN  /\ fireballs' = Append(fireballs, fireball)
           /\ sent' = broadcast([type |-> "fireballCast", fireball |-> fireball],
                                NoClient, clients)
    /\ last' = [op |-> "fireball", sid |-> sid]
    /\ UNCHANGED <<map, players, nextPlayerId, clients, monsters, timers,
                   now, idSeq, hist>>

\* gameState.monsters.find(m => m.id === id): the index of the first
\* monster with that id, 0 when there is none
RECURSIVE FindFrom(_, _, _)
FindFrom(ms, id, i) ==
    IF i > Len(ms) THEN 0
    ELSE IF ms[i].id = id THEN i
    ELSE FindFrom(ms, id, i + 1)

\* find taking the first monster whatever its id
find_AnyId(ms, id) == IF Len(ms) > 0 THEN 1 ELSE 0

find(ms, id) == FindFrom(ms, id, 1)

\* filter that removes nothing
filter_KeepAll(ms, id) == ms

\* gameState.monsters.filter(m => m.id !== id)
filter(ms, id) == SelectSeq(ms, LAMBDA m : m.id # id)

\* the hit subtracted from the monster's full health, not its current one
hitHealth_FromFull(monster, damage) == monster.maxHealth - damage

\* hitMonster.health -= damage
hitHealth(monster, damage) == monster.health - damage

\* the death test with < in the place of <=
isDead_Strict(health) == health < 0

\* monster.health <= 0
isDead(health) == health <= 0

\* The history of a death: one more monsterDied for id, one more setTimeout;
\* the account of the damage done to id is closed.
Died(h, id) ==
    [h EXCEPT !.died[id] = @ + 1, !.diedAt = Append(@, now),
              !.fb[id] = 0, !.melee[id] = 0, !.hitBy[id] = {}]

Scheduled(h, id) ==
    [h EXCEPT !.scheduled[id] = @ + 1]

\* The account of the damage done to a live monster: what melee attacks
\* took from it, how many fireball hits it received and from which sessions.
Meleed(h, id, damage) ==
    [h EXCEPT !.melee[id] = @ + damage]

Fireballed(h, id, sid) ==
    [h EXCEPT !.fb[id] = @ + 1, !.hitBy[id] = @ \cup {sid}]

\* A death schedules a spawn, which needs an id below the cap.
CanDie == idSeq + Len(timers) < MaxMonsterId

\* handleClientMessage, case 'attack'; r is the draw of the damage
MsgAttack(sid, targetMonsterId, r) ==
    /\ sid \in DOMAIN clients
    /\ clients[sid] = "OPEN"
    /\ sid \in DOMAIN players
    /\ LET i == find(monsters, targetMonsterId)
       IN  IF i # 0
           THEN LET damage == RandInt(r, 5) + 8
                    health == monsters[i].health - damage
                IN  IF isDead(health)
                    THEN /\ CanDie
                         /\ monsters' = filter([monsters EXCEPT
                                                   ![i].health = health],
                                               targetMonsterId)
                         /\ sent' = broadcast([type |-> "monsterDied",
                                               monsterId |-> targetMonsterId],
                                              NoClient, clients)
                         /\ timers' = Append(timers, now + RESPAWN_DELAY)
                         /\ hist' = Scheduled(Died(Meleed(hist,
                                         targetMonsterId, damage),
                                         targetMonsterId), targetMonsterId)
                    ELSE /\ monsters' = [monsters EXCEPT ![i].health = health]
                         /\ sent' = broadcast([type |-> "monsterDamaged",
                                               monsterId |-> targetMonsterId,
                                               health |-> health,
                                               damage |-> damage],
                                              NoClient, clients)
                         /\ hist' = Meleed(hist, targetMonsterId, damage)
                         /\ UNCHANGED timers
           ELSE /\ sent' = << >>
                /\ UNCHANGED <<monsters, timers, hist>>
    /\ last' = LET i == find(monsters, targetMonsterId)
                   id == targetMonsterId
               IN  [op |-> "attack", sid |-> sid, monsterId |-> id,
                    found |-> i # 0,
                    fb |-> IF i # 0 THEN hist.fb[id] ELSE 0,
                    melee |-> IF i # 0
                              THEN hist.melee[id] + RandInt(r, 5) + 8 ELSE 0]
    /\ UNCHANGED <<map, players, nextPlayerId, clients, fireballs, now, idSeq>>

\* handleClientMessage, case 'fireballHit'
MsgFireballHit(sid, hitMonsterId) ==
    /\ sid \in DOMAIN clients
    /\ clients[sid] = "OPEN"
    /\ sid \in DOMAIN players
    /\ LET i == find(monsters, hitMonsterId)
       IN  IF i # 0
           THEN LET damage == FIREBALL_DAMAGE
                    health == hitHealth(monsters[i], damage)
                IN  IF isDead(health)
                    THEN /\ CanDie
                         /\ monsters' = filter([monsters EXCEPT
                                                   ![i].health = health],
                                               hitMonsterId)
                         /\ sent' = broadcast([type |-> "monsterDied",
                                               monsterId |-> hitMonsterId],
                                              NoClient, clients)
                         /\ timers' = Append(timers, now + RESPAWN_DELAY)
                         /\ hist' = Scheduled(Died(Fireballed(hist,
                                         hitMonsterId, sid),
                                         hitMonsterId), hitMonsterId)
                    ELSE /\ monsters' = [monsters EXCEPT ![i].health = health]
                         /\ sent' = broadcast([type |-> "monsterDamaged",
                                               monsterId |-> hitMonsterId,
                                               health |-> health,
                                               damage |-> damage],
                                              NoClient, clients)
                         /\ hist' = Fireballed(hist, hitMonsterId, sid)
                         /\ UNCHANGED timers
           ELSE /\ sent' = << >>
                /\ UNCHANGED <<monsters, timers, hist>>
    /\ last' = LET i == find(monsters, hitMonsterId)
                   id == hitMonsterId
               IN  [op |-> "fireballHit", sid |-> sid, monsterId |-> id,
                    found |-> i # 0,
                    fb |-> IF i # 0 THEN hist.fb[id] + 1 ELSE 0,
                    melee |-> IF i # 0 THEN hist.melee[id] ELSE 0]
    /\ UNCHANGED <<map, players, nextPlayerId, clients, fireballs, now, idSeq>>

\* ------------------------------------------------------------ timers
\* The setTimeout callback of a death: it runs when its deadline is reached.
RespawnFire(s) ==
    /\ timers # << >>
    /\ Head(timers) <= now
    /\ Returns(s)
    /\ LET newMonster == spawnMonster(s, idSeq + 1, now)
       IN  /\ monsters' = Append(monsters, newMonster)
           /\ sent' = broadcast([type |-> "monsterSpawned",
                                 monster |-> newMonster], NoClient, clients)
    /\ idSeq' = idSeq + 1
    /\ timers' = Tail(timers)
    /\ hist' = [hist EXCEPT !.spawnedAt = Append(@, now)]
    /\ last' = [op |-> "respawn"]
    /\ UNCHANGED <<map, players, nextPlayerId, clients, fireballs, now>>

Min(a, b) == IF a <= b THEN a ELSE b

\* Date.now() advances, and never past the deadline of a pending timer: the
\* timer's callback runs at its deadline.
AdvanceTime(step) ==
    /\ IF timers # << >> THEN now < Head(timers) ELSE now + step <= MaxTime
    /\ now' = IF timers # << >>
              THEN Min(now + step, Head(timers))
              ELSE now + step
    /\ last' = [op |-> "time"]
    /\ sent' = << >>
    /\ UNCHANGED <<map, players, nextPlayerId, clients, monsters, fireballs,
                   timers, idSeq, hist>>

\* ------------------------------------------------------ monster AI
\* (player.x - monster.x)^2 + (player.y - monster.y)^2: the square of the
\* distance gameLoop computes
Dist2(p, m) == (p.x - m.x) * (p.x - m.x) + (p.y - m.y) * (p.y - m.y)

\* gameState.players.forEach: the first player at the least distance, in
\* insertion order; 0 when there is no player
RECURSIVE NearestFrom(_, _, _, _, _)
NearestFrom(order, i, ps, m, best) ==
    IF i > Len(order) THEN best
    ELSE LET p == ps[order[i]]
         IN  IF best = 0 \/ Dist2(p, m) < Dist2(ps[best], m)
             THEN NearestFrom(order, i + 1, ps, m, p.id)
             ELSE NearestFrom(order, i + 1, ps, m, best)

\* a scan in which the player met last wins a tie
NearestPlayer_LastWins(ps, m) ==
    LET first == NearestFrom(Ascending(DOMAIN ps), 1, ps, m, 0)
    IN  IF first = 0 THEN 0
        ELSE Max({p \in DOMAIN ps : Dist2(ps[p], m) = Dist2(ps[first], m)})

\* gameState.players.forEach: a Map is walked in the order of insertion,
\* and players are inserted with ids that only grow
NearestPlayer(ps, m) == NearestFrom(Ascending(DOMAIN ps), 1, ps, m, 0)

Abs(a) == IF a < 0 THEN -a ELSE a

Sign(a) == IF a > 0 THEN 1 ELSE -1

\* An attack that takes 4 to 9
attackDamage_FromFour(d) == RandInt(d.dmg, 6) + 4

\* Math.floor(Math.random() * 6) + 5: the damage of a monster's attack
attackDamage(d) == RandInt(d.dmg, 6) + 5

\* a monster that acts on every tick
intervalPassed_Always(monster) == TRUE

\* now - monster.lastMove > 500
intervalPassed(monster) == now - monster.lastMove > MOVE_INTERVAL

\* a monster that finds no player and steps to the right
noTarget_Stray(m1, ps) ==
    [monster |-> [m1 EXCEPT !.x = @ + 1], players |-> ps, sent |-> << >>]

\* if (nearestPlayer) fails: only lastMove was written
noTarget(m1, ps) == [monster |-> m1, players |-> ps, sent |-> << >>]

\* The body of gameLoop's forEach for one monster; d holds the draws of the
\* attack roll and of the damage.
MonsterTurn(monster, ps, d, cl) ==
    IF intervalPassed(monster)
    THEN LET m1 == [monster EXCEPT !.lastMove = now]
             nearest == NearestPlayer(ps, monster)
         IN  IF nearest # 0
             THEN LET nearestPlayer == ps[nearest]
                      minDistance2 == Dist2(nearestPlayer, monster)
                      dx == nearestPlayer.x - monster.x
                      dy == nearestPlayer.y - monster.y
                      moveX == IF Abs(dx) > Abs(dy) THEN Sign(dx)
                               ELSE IF Abs(dy) > Abs(dx) THEN 0
                               ELSE IF dx # 0 THEN Sign(dx) ELSE 0
                      moveY == IF Abs(dx) > Abs(dy) THEN 0
                               ELSE IF Abs(dy) > Abs(dx) THEN Sign(dy)
                               ELSE IF dx # 0 THEN Sign(dy) ELSE 0
                      newX == monster.x + moveX
                      newY == monster.y + moveY
                      step == isValidMove(newX, newY)
                      m2 == IF step THEN [m1 EXCEPT !.x = newX, !.y = newY]
                            ELSE m1
                      sentMove ==
                          IF step
                          THEN broadcast([type |-> "monsterMoved",
                                          monsterId |-> monster.id,
                                          x |-> newX, y |-> newY], NoClient, cl)
                          ELSE << >>
                      \* minDistance <= 1.5 && Math.random() < 0.3
                      attack == 4 * minDistance2 <= 9 /\ RandLess(d.roll, 3, 10)
                      damage == attackDamage(d)
                      health == nearestPlayer.health - damage
                      sentAttack ==
                          IF attack
                          THEN broadcast([type |-> "playerDamaged",
                                          playerId |-> nearest,
                                          health |-> health,
                                          damage |-> damage], NoClient, cl)
                               \o (IF health <= 0
                                   THEN broadcast([type |-> "playerDied",
                                                   playerId |-> nearest],
                                                  NoClient, cl)
                                   ELSE << >>)
                          ELSE << >>
                  IN  [monster |-> m2,
                       players |-> IF attack
                                   THEN [ps EXCEPT ![nearest].health = health]
                                   ELSE ps,
                       sent |-> sentMove \o sentAttack]
             ELSE noTarget(m1, ps)
    ELSE [monster |-> monster, players |-> ps, sent |-> << >>]

\* gameState.monsters.forEach, from monster i on
RECURSIVE gameLoopFrom(_, _, _, _, _)
gameLoopFrom(i, ms, ps, out, ds) ==
    IF i > Len(ms) THEN [monsters |-> ms, players |-> ps, sent |-> out]
    ELSE LET r == MonsterTurn(ms[i], ps, ds[i], clients)
         IN  gameLoopFrom(i + 1, [ms EXCEPT ![i] = r.monster], r.players,
                          out \o r.sent, ds)

\* Player health has no floor in the code; the model follows it this far
\* below zero.
HealthFloor == 0 - MaxOverkill

\* gameLoop(): what it does to the game state; ds[i] are the draws of
\* monster i
forEachMonster(ds) ==
    /\ LET r == gameLoopFrom(1, monsters, players, << >>, ds)
       IN  /\ \A p \in DOMAIN r.players : r.players[p].health >= HealthFloor
           /\ monsters' = r.monsters
           /\ players' = r.players
           /\ sent' = r.sent
    /\ last' = [op |-> "tick"]
    /\ UNCHANGED <<map, nextPlayerId, clients, fireballs, timers, now, idSeq>>

\* setInterval(gameLoop, 1000 / TICK_RATE)
gameLoop(ds) == forEachMonster(ds) /\ UNCHANGED hist

\* The same tick, with the time noted at which each monster changed tile.
gameLoopTimed(ds) ==
    /\ forEachMonster(ds)
    /\ hist' = [hist EXCEPT !.movedAt =
                   [id \in 1..MaxMonsterId |->
                       IF \E i \in 1..Len(monsters) :
                             /\ monsters[i].id = id
                             /\ <<monsters'[i].x, monsters'[i].y>>
                                   # <<monsters[i].x, monsters[i].y>>
                       THEN <<now>> ELSE @[id]]]

\* Draws of a monster's turn: the roll misses (>= 0.3) or hits (< 0.3), the
\* damage is the least or the greatest.
MissDraws == {[roll |-> RandScale - 1, dmg |-> 0]}
HitDraws == {[roll |-> 0, dmg |-> 0], [roll |-> 0, dmg |-> RandScale - 1]}

\* Coordinates clients ask to move to: outside the map on every side, the
\* border, the clearing and the blocked tiles around it.
MoveTargets ==
    { <<-1, 2>>, <<MAP_WIDTH, 2>>, <<2, -1>>, <<2, MAP_HEIGHT>>, <<0, 0>>,
      <<2, 2>>, <<3, 2>>, <<4, 3>>, <<5, 2>>, <<3, 4>> }

Next ==
    \/ \E s \in Streams : Connect(s) /\ Offline
    \/ \E sid \in 1..MaxPlayerId : SockClosing(sid) /\ Offline
    \/ \E sid \in 1..MaxPlayerId : Close(sid) /\ Offline
    \/ \E sid \in 1..MaxPlayerId, c \in MoveTargets : MsgMove(sid, c[1], c[2]) /\ Offline

Spec == Init /\ [][Next]_vars

\* Monster ids clients name: the first monster, and the first respawned one,
\* an id no monster has until then.
TargetIds == {1, MONSTER_COUNT + 1}

\* Draws of the melee damage: 8 and 12.
MeleeDraws == {0, RandScale - 1}

\* The stream whose samples are all the least draw.
PlainStreams == {s \in Streams : s.head = << >> /\ s.tail = [rx |-> 0, ry |-> 0]}

\* Casting: sessions come and go, players move and cast fireballs.
CastMoves == { <<3, 2>>, <<0, 0>> }

CastTargets == { <<4, 3>> }

NextCast ==
    \/ \E s \in PlainStreams : Connect(s) /\ Offline
    \/ \E sid \in 1..MaxPlayerId : SockClosing(sid) /\ Offline
    \/ \E sid \in 1..MaxPlayerId : Close(sid) /\ Offline
    \/ \E sid \in 1..MaxPlayerId, c \in CastMoves : MsgMove(sid, c[1], c[2]) /\ Offline
    \/ \E sid \in 1..MaxPlayerId, c \in CastTargets :
          MsgFireball(sid, c[1], c[2]) /\ Offline

SpecCast == Init /\ [][NextCast]_vars

\* Frames: sessions send frames that do not parse, and moves.
NextFrames ==
    \/ \E s \in PlainStreams : Connect(s) /\ Offline
    \/ \E sid \in 1..MaxPlayerId : Close(sid) /\ Offline
    \/ \E sid \in 1..MaxPlayerId : MsgUnparseable(sid) /\ Offline
    \/ \E sid \in 1..MaxPlayerId, c \in CastMoves : MsgMove(sid, c[1], c[2]) /\ Offline

SpecFrames == Init /\ [][NextFrames]_vars

\* Monster attacks: players connect, time passes in steps that let every
\* monster act again, and each monster's attack roll misses, or hits with
\* the greatest damage.
AIDraws == MissDraws \cup {d \in HitDraws : d.dmg = RandScale - 1}

NextAI ==
    \/ \E s \in PlainStreams : Connect(s) /\ Offline
    \/ \E sid \in 1..MaxPlayerId : Close(sid) /\ Offline
    \/ AdvanceTime(MOVE_INTERVAL + 1) /\ Offline
    \/ \E ds \in [1..Len(monsters) -> AIDraws] : gameLoop(ds) /\ Offline

SpecAI == Init /\ [][NextAI]_vars

\* The hunt: on the field, players join next to the monsters, leave, and move
\* two tiles off them diagonally; time passes in steps that let every monster
\* act again, and in a tick every monster misses, or every monster hits with
\* the least or the greatest damage.
HuntMoves == { <<5, 4>> }

\* The time between two ticks of the hunt: two and a half move intervals
HuntStep == 2 * MOVE_INTERVAL + MOVE_INTERVAL \div 2

HuntDraws == {[i \in 1..Len(monsters) |-> d] : d \in MissDraws \cup HitDraws}

NextHunt ==
    \/ \E s \in PlainStreams : Connect(s) /\ Offline
    \/ \E sid \in 1..MaxPlayerId : Close(sid) /\ Offline
    \/ \E sid \in 1..MaxPlayerId, c \in HuntMoves :
          MsgMove(sid, c[1], c[2]) /\ Offline
    \/ AdvanceTime(HuntStep) /\ Offline
    \/ \E ds \in HuntDraws : gameLoop(ds) /\ Offline

SpecHunt == listen(FieldMaps) /\ [][NextHunt]_vars

\* Arrivals alone: players connect with every stream of samples, and leave.
NextSpawn ==
    \/ \E s \in Streams : ConnectTraced(s) /\ Offline
    \/ \E sid \in 1..MaxPlayerId : Close(sid) /\ Offline

SpecSpawn == Init /\ [][NextSpawn]_vars

\* The pace: on the field, with ticks that may come half a move interval
\* apart or one millisecond after the other (the clock is then late by
\* that millisecond, MaxLate at most).
PaceSteps == {1, MOVE_INTERVAL \div 2}

Late == now % (MOVE_INTERVAL \div 2)

PaceEnd == 3 * MOVE_INTERVAL + MaxLate

PaceMoves == { <<2, 5>> }

NextPace ==
    \/ \E s \in PlainStreams : Connect(s) /\ Offline
    \/ \E sid \in 1..MaxPlayerId, c \in PaceMoves :
          MsgMove(sid, c[1], c[2]) /\ Offline
    \/ \E step \in PaceSteps :
          /\ now + step <= PaceEnd
          /\ step = 1 => Late < MaxLate
          /\ AdvanceTime(step) /\ Offline
    \/ \E ds \in HuntDraws : gameLoopTimed(ds) /\ Offline

SpecPace == listen(FieldMaps) /\ [][NextPace]_vars

NextCombat ==
    \/ \E s \in PlainStreams : Connect(s) /\ Offline
    \/ \E sid \in 1..MaxPlayerId : Close(sid) /\ Offline
    \/ \E sid \in 1..MaxPlayerId, id \in TargetIds, r \in MeleeDraws :
          MsgAttack(sid, id, r) /\ Offline
    \/ \E sid \in 1..MaxPlayerId, id \in TargetIds : MsgFireballHit(sid, id) /\ Offline
    \/ \E s \in RetryStreams : RespawnFire(s) /\ Offline
    \/ AdvanceTime(RESPAWN_DELAY) /\ Offline
    \/ \E ds \in [1..Len(monsters) -> MissDraws] : gameLoop(ds) /\ Offline

SpecCombat == Init /\ [][NextCombat]_vars

\* Deaths and respawns: the combat above with the greatest melee damage only.
NextRespawn ==
    \/ \E s \in PlainStreams : Connect(s) /\ Offline
    \/ \E sid \in 1..MaxPlayerId : Close(sid) /\ Offline
    \/ \E sid \in 1..MaxPlayerId, id \in TargetIds :
          MsgAttack(sid, id, RandScale - 1) /\ Offline
    \/ \E sid \in 1..MaxPlayerId, id \in TargetIds : MsgFireballHit(sid, id) /\ Offline
    \/ \E s \in RetryStreams : RespawnFire(s) /\ Offline
    \/ AdvanceTime(RESPAWN_DELAY) /\ Offline

\* The same from a start with the ids drawn.
SpecStart == listenDrawn(Maps) /\ [][NextRespawn]_vars

\* The event loop keeps running: time passes and a due timer's callback runs.
SpecRespawnFair ==
    /\ Init /\ [][NextRespawn]_vars
    /\ WF_vars(AdvanceTime(RESPAWN_DELAY) /\ Offline)
    /\ WF_vars(\E s \in RetryStreams : RespawnFire(s) /\ Offline)

\* ----------------------------------------------------------- clients
\* The game object of a page that has not been sent init yet.  lastFireball
\* is << >> until the first cast: Date.now() is far more than the cooldown
\* above its initial 0.
NewGame ==
    [running |-> FALSE, myPlayerId |-> 0, map |-> << >>,
     players |-> << >>, monsters |-> << >>,
     fireballs |-> << >>, lastFireball |-> << >>]

TILE_SIZE == 32
CANVAS_WIDTH == 20 * 32
CANVAS_HEIGHT == 15 * 32
FIREBALL_SPEED == 8
FIREBALL_COOLDOWN == 1000
HIT_RADIUS == 16

Toward(d) == IF d > 0 THEN 1 ELSE IF d < 0 THEN -1 ELSE 0

\* new Fireball(id, startX, startY, targetX, targetY), for a target on the
\* row or on the column of the start and away from it: there the distance
\* is |dx| + |dy| and (dx / distance) * FIREBALL_SPEED is exact.
Fireball(id, startX, startY, targetX, targetY) ==
    LET x == startX * TILE_SIZE + TILE_SIZE \div 2
        y == startY * TILE_SIZE + TILE_SIZE \div 2
    IN  [id |-> id, x |-> x, y |-> y,
         vx |-> Toward(targetX - x) * FIREBALL_SPEED,
         vy |-> Toward(targetY - y) * FIREBALL_SPEED,
         active |-> TRUE]

\* new Player(id, x, y, name) left with the health of its constructor
Player_FullHealth(data) ==
    [id |-> data.id, x |-> data.x, y |-> data.y, health |-> 100,
     maxHealth |-> 100]

\* new Player(id, x, y, name) followed by player.health = data.health
Player(data) ==
    [id |-> data.id, x |-> data.x, y |-> data.y, health |-> data.health,
     maxHealth |-> 100]

\* new Monster(id, x, y) followed by monster.health = data.health
Monster(data) ==
    [id |-> data.id, x |-> data.x, y |-> data.y, health |-> data.health,
     maxHealth |-> 50]

\* Map.prototype.set and Map.prototype.delete
MapSet(f, k, v) == [x \in DOMAIN f \cup {k} |-> IF x = k THEN v ELSE f[x]]

MapDelete(f, k) == [x \in DOMAIN f \ {k} |-> f[x]]

\* message.players.forEach(data => game.players.set(data.id, player))
RECURSIVE SetPlayers(_, _, _)
SetPlayers(f, array, i) ==
    IF i > Len(array) THEN f
    ELSE SetPlayers(MapSet(f, array[i].id, Player(array[i])), array, i + 1)

\* message.monsters.forEach(data => game.monsters.set(data.id, monster))
RECURSIVE SetMonsters(_, _, _)
SetMonsters(f, array, i) ==
    IF i > Len(array) THEN f
    ELSE SetMonsters(MapSet(f, array[i].id, Monster(array[i])), array, i + 1)

\* handleServerMessage(message) on the game object g
handleServerMessage(g, message) ==
    CASE message.type = "init" ->
           [g EXCEPT !.myPlayerId = message.playerId,
                     !.map = message.map,
                     !.players = SetPlayers(@, message.players, 1),
                     !.monsters = SetMonsters(@, message.monsters, 1),
                     !.running = TRUE]
      [] message.type = "playerJoined" ->
           [g EXCEPT !.players = MapSet(@, message.player.id,
                                        Player(message.player))]
      [] message.type = "playerLeft" ->
           IF message.playerId \in DOMAIN g.players
           THEN [g EXCEPT !.players = MapDelete(@, message.playerId)]
           ELSE g
      [] message.type = "playerMoved" ->
           IF message.playerId \in DOMAIN g.players
           THEN [g EXCEPT !.players[message.playerId].x = message.x,
                          !.players[message.playerId].y = message.y]
           ELSE g
      [] message.type = "fireballCast" ->
           [g EXCEPT !.fireballs =
               Append(@, Fireball(message.fireball.id,
                                  message.fireball.startX,
                                  message.fireball.startY,
                                  message.fireball.targetX,
                                  message.fireball.targetY))]
      [] message.type = "monsterMoved" ->
           IF message.monsterId \in DOMAIN g.monsters
           THEN [g EXCEPT !.monsters[message.monsterId].x = message.x,
                          !.monsters[message.monsterId].y = message.y]
           ELSE g
      [] message.type = "monsterDamaged" ->
           IF message.monsterId \in DOMAIN g.monsters
           THEN [g EXCEPT !.monsters[message.monsterId].health =
                              message.health]
           ELSE g
      [] message.type = "monsterDied" ->
           [g EXCEPT !.monsters = MapDelete(@, message.monsterId)]
      [] message.type = "monsterSpawned" ->
           [g EXCEPT !.monsters = MapSet(@, message.monster.id,
                                         Monster(message.monster))]
      [] message.type = "playerDamaged" ->
           IF message.playerId \in DOMAIN g.players
           THEN [g EXCEPT !.players[message.playerId].health =
                              message.health]
           ELSE g
      [] message.type = "playerDied" ->
           \* gameOver()
           IF message.playerId = g.myPlayerId
           THEN [g EXCEPT !.running = FALSE]
           ELSE g
      [] OTHER -> g

\* canMoveTo without the look-up of the tile's walkable flag
canMoveTo_NoTile(g, x, y) ==
    ~ (x < 0 \/ x >= MAP_WIDTH \/ y < 0 \/ y >= MAP_HEIGHT)

\* canMoveTo(x, y) of the client c
canMoveTo(g, x, y) ==
    IF x < 0 \/ x >= MAP_WIDTH \/ y < 0 \/ y >= MAP_HEIGHT THEN FALSE
    ELSE TILES[g.map[y][x]].walkable

\* The step of each key that moves the player
KeyStep(key) ==
    CASE key = "w" -> [x |-> 0, y |-> -1]
      [] key = "s" -> [x |-> 0, y |-> 1]
      [] key = "a" -> [x |-> -1, y |-> 0]
      [] key = "d" -> [x |-> 1, y |-> 0]

ServerVars == <<map, players, nextPlayerId, clients, monsters, fireballs,
                timers, now, idSeq, last, sent, hist>>

\* The keydown listener of client c: the optimistic update and the move frame
keydown(c, key) ==
    /\ c \in DOMAIN game
    /\ Len(toServer[c]) < MaxInFlight
    /\ game[c].running
    /\ game[c].myPlayerId # 0
    /\ game[c].myPlayerId \in DOMAIN game[c].players
    /\ LET g == game[c]
           myPlayer == g.players[g.myPlayerId]
           newX == myPlayer.x + KeyStep(key).x
           newY == myPlayer.y + KeyStep(key).y
       IN  IF canMoveTo(g, newX, newY)
           THEN /\ game' = [game EXCEPT ![c].players[g.myPlayerId].x = newX,
                                        ![c].players[g.myPlayerId].y = newY]
                /\ toServer' = [toServer EXCEPT ![c] =
                       Append(@, [type |-> "move", x |-> newX, y |-> newY])]
           ELSE UNCHANGED <<game, toServer>>
    /\ UNCHANGED toClient
    /\ UNCHANGED ServerVars

\* Fireball.update of client c: a fireball in flight comes within 16 pixels
\* of a monster of the replica, and the client reports the hit.
FireballUpdate(c, monsterId) ==
    /\ c \in DOMAIN game
    /\ Len(toServer[c]) < MaxInFlight
    /\ monsterId \in DOMAIN game[c].monsters
    /\ toServer' = [toServer EXCEPT ![c] =
           Append(@, [type |-> "fireballHit", monsterId |-> monsterId])]
    /\ UNCHANGED <<game, toClient>>
    /\ UNCHANGED ServerVars

\* The click listener of the canvas of client c: the cast is sent and a
\* fireball of the page's own is put in flight at once.
click(c, mouseX, mouseY) ==
    /\ c \in DOMAIN game
    /\ Len(toServer[c]) < MaxInFlight
    /\ game[c].running
    /\ game[c].myPlayerId # 0
    /\ game[c].myPlayerId \in DOMAIN game[c].players
    /\ IF game[c].lastFireball = << >> THEN TRUE
       ELSE ~ (now - game[c].lastFireball[1] < FIREBALL_COOLDOWN)
    /\ LET g == game[c]
           myPlayer == g.players[g.myPlayerId]
       IN  /\ toServer' = [toServer EXCEPT ![c] =
                  Append(@, [type |-> "fireball", targetX |-> mouseX,
                             targetY |-> mouseY])]
           /\ game' = [game EXCEPT
                  ![c].fireballs = Append(@, Fireball(now, myPlayer.x,
                                              myPlayer.y, mouseX, mouseY)),
                  ![c].lastFireball = << now >>]
    /\ UNCHANGED toClient
    /\ UNCHANGED ServerVars

\* The monsters of the replica within the radius of the point, in the order
\* of game.monsters
Touched(g, x, y) ==
    LET order == Ascending(DOMAIN g.monsters)
        cx(m) == m.x * TILE_SIZE + TILE_SIZE \div 2
        cy(m) == m.y * TILE_SIZE + TILE_SIZE \div 2
    IN  SelectSeq(order, LAMBDA id :
            (x - cx(g.monsters[id])) * (x - cx(g.monsters[id]))
              + (y - cy(g.monsters[id])) * (y - cy(g.monsters[id]))
                < HIT_RADIUS * HIT_RADIUS)

\* Fireball.update(): the fireball after the frame and the monsters whose
\* hit it reports
Fireball_update(g, fb) ==
    LET x == fb.x + fb.vx
        y == fb.y + fb.vy
        moved == [fb EXCEPT !.x = x, !.y = y]
        tileX == x \div TILE_SIZE
        tileY == y \div TILE_SIZE
    IN  IF x < 0 \/ x > CANVAS_WIDTH \/ y < 0 \/ y > CANVAS_HEIGHT
        THEN [fb |-> [moved EXCEPT !.active = FALSE], hits |-> << >>]
        ELSE LET hits == Touched(g, x, y)
                 blocked == /\ tileX >= 0 /\ tileX < MAP_WIDTH
                            /\ tileY >= 0 /\ tileY < MAP_HEIGHT
                            /\ ~ TILES[g.map[tileY][tileX]].walkable
             IN  [fb |-> [moved EXCEPT
                            !.active = ~ (hits # << >> \/ blocked)],
                  hits |-> hits]

\* The loop of the page's gameLoop over game.fireballs, from the last to the
\* first: what is left in flight and the hits reported, in order.
RECURSIVE FlyFrom(_, _)
FlyFrom(g, i) ==
    IF i = 0 THEN [fireballs |-> << >>, hits |-> << >>]
    ELSE LET u == Fireball_update(g, g.fireballs[i])
             rest == FlyFrom(g, i - 1)
         IN  [fireballs |-> IF u.fb.active
                            THEN Append(rest.fireballs, u.fb)
                            ELSE rest.fireballs,
              hits |-> u.hits \o rest.hits]

\* The requestAnimationFrame callback of client c with fireballs in flight
frame(c) ==
    /\ c \in DOMAIN game
    /\ game[c].fireballs # << >>
    /\ toServer[c] = << >>
    /\ LET flown == FlyFrom(game[c], Len(game[c].fireballs))
       IN  /\ game' = [game EXCEPT ![c].fireballs = flown.fireballs]
           /\ toServer' = [toServer EXCEPT ![c] =
                  [k \in 1..Len(flown.hits) |->
                      [type |-> "fireballHit", monsterId |-> flown.hits[k]]]]
    /\ UNCHANGED toClient
    /\ UNCHANGED ServerVars

\* game.ws.onmessage of client c: the oldest undelivered frame arrives
onmessage(c) ==
    /\ c \in DOMAIN game
    /\ toClient[c] # << >>
    /\ game' = [game EXCEPT ![c] = handleServerMessage(@, Head(toClient[c]))]
    /\ toClient' = [toClient EXCEPT ![c] = Tail(@)]
    /\ UNCHANGED toServer
    /\ UNCHANGED ServerVars

\* ------------------------------------------------------ connections
\* client.send(data) of every frame the handler sent, in the order it sent
\* them; a session that is gone has no connection left.
Framed(q, c, msgs) ==
    LET mine == SelectSeq(msgs, LAMBDA e : e.to = c)
    IN  q \o [i \in 1..Len(mine) |-> mine[i].msg]

Transmit ==
    toClient' = [c \in DOMAIN clients' |->
                    Framed(IF c \in DOMAIN toClient THEN toClient[c]
                           ELSE << >>, c, sent')]

\* The sockets can take what the next handler sends
Writable == \A c \in DOMAIN toClient : Len(toClient[c]) < MaxInFlight

\* A page opens its socket and the server's connection handler runs
OnConnection(s) ==
    /\ Writable
    /\ Connect(s)
    /\ Transmit
    /\ game' = game @@ (nextPlayerId :> NewGame)
    /\ toServer' = toServer @@ (nextPlayerId :> << >>)

\* A page goes away and the server's close handler runs
OnClose(sid) ==
    /\ Writable
    /\ Close(sid)
    /\ Transmit
    /\ game' = [c \in DOMAIN game \ {sid} |-> game[c]]
    /\ toServer' = [c \in DOMAIN toServer \ {sid} |-> toServer[c]]

\* ws.on('message') of session sid: the oldest frame of its client arrives
OnMessage(sid) ==
    /\ Writable
    /\ sid \in DOMAIN toServer
    /\ toServer[sid] # << >>
    /\ LET data == Head(toServer[sid])
       IN  CASE data.type = "move" -> MsgMove(sid, data.x, data.y)
             [] data.type = "fireballHit" ->
                  MsgFireballHit(sid, data.monsterId)
             [] data.type = "fireball" ->
                  MsgFireball(sid, data.targetX, data.targetY)
    /\ Transmit
    /\ toServer' = [toServer EXCEPT ![sid] = Tail(@)]
    /\ UNCHANGED game

\* The respawn timer's callback, and what it sends
OnTimeout(s) ==
    /\ Writable
    /\ RespawnFire(s)
    /\ Transmit
    /\ UNCHANGED <<game, toServer>>

\* The tick, and what it sends
OnInterval(ds) ==
    /\ Writable
    /\ gameLoop(ds)
    /\ Transmit
    /\ UNCHANGED <<game, toServer>>

\* The keys pages press: up, into the trees, and right, along the clearing
PressedKeys == {"w", "d"}

\* The monsters whose hits pages report: the first one
HitTargets == {id \in TargetIds : id <= MONSTER_COUNT}

\* The draws of a tick: every monster misses, or every monster hits
TickDraws ==
    {[i \in 1..Len(monsters) |-> d] : d \in AIDraws}

\* The server with its clients: pages come and go, press keys and report
\* fireball hits, and frames travel in order on each connection.
NextSync ==
    \/ \E s \in PlainStreams : OnConnection(s) /\ Standalone
    \/ \E sid \in 1..MaxPlayerId : OnClose(sid) /\ Standalone
    \/ \E c \in 1..MaxPlayerId, key \in PressedKeys :
           keydown(c, key) /\ Standalone
    \/ \E c \in 1..MaxPlayerId, id \in HitTargets :
           FireballUpdate(c, id) /\ Standalone
    \/ \E c \in 1..MaxPlayerId : onmessage(c) /\ Standalone
    \/ \E sid \in 1..MaxPlayerId : OnMessage(sid) /\ Standalone
    \/ \E s \in RetryStreams : OnTimeout(s) /\ Standalone
    \/ AdvanceTime(RESPAWN_DELAY) /\ Offline
    \/ \E ds \in TickDraws : OnInterval(ds) /\ Standalone

SpecSync == Init /\ [][NextSync]_vars

\* Walking only: pages come and go and press keys, and the frames travel.
NextWalk ==
    \/ \E s \in PlainStreams : OnConnection(s) /\ Standalone
    \/ \E sid \in 1..MaxPlayerId : OnClose(sid) /\ Standalone
    \/ \E c \in 1..MaxPlayerId, key \in PressedKeys :
           keydown(c, key) /\ Standalone
    \/ \E c \in 1..MaxPlayerId : onmessage(c) /\ Standalone
    \/ \E sid \in 1..MaxPlayerId : OnMessage(sid) /\ Standalone

SpecWalk == Init /\ [][NextWalk]_vars

\* The clicks explored: the middle of the tile right of the spawn tile.
ClickTargets == { <<3 * TILE_SIZE + TILE_SIZE \div 2,
                   2 * TILE_SIZE + TILE_SIZE \div 2>> }

\* Casting with pages: pages come, click, draw frames, and frames travel.
NextVolley ==
    \/ \E s \in PlainStreams : OnConnection(s) /\ Standalone
    \/ \E c \in 1..MaxPlayerId, t \in ClickTargets :
           click(c, t[1], t[2]) /\ Standalone
    \/ \E c \in 1..MaxPlayerId : frame(c) /\ Standalone
    \/ \E c \in 1..MaxPlayerId : onmessage(c) /\ Standalone
    \/ \E sid \in 1..MaxPlayerId : OnMessage(sid) /\ Standalone

SpecVolley == Init /\ [][NextVolley]_vars

\* ------------------------------------------------------ single player
\* The single-player page keeps everything in one game object and runs
\* the monster from the frame callback of the page itself.

MONSTER_MOVE_INTERVAL == 500
MONSTER_ATTACK_INTERVAL == 1500
PLAYER_ATTACK_COOLDOWN == 500

\* game.monster = null
NoMonster == [state |-> "null"]

\* new Player(x, y) and new Monster(x, y)
NewPlayer(x, y) == [x |-> x, y |-> y, health |-> 100]

NewMonster(x, y) == [x |-> x, y |-> y, health |-> 50, state |-> "hunting"]

\* Entity.canMoveTo on the map of game object s
EntityCanMoveTo(s, x, y) ==
    IF x < 0 \/ x >= MAP_WIDTH \/ y < 0 \/ y >= MAP_HEIGHT THEN FALSE
    ELSE TILES[s.map[y][x]].walkable

\* Entity.moveTo: the entity after the call (unchanged when it returns false)
EntityMoveTo(s, e, x, y) ==
    IF EntityCanMoveTo(s, x, y) THEN [e EXCEPT !.x = x, !.y = y] ELSE e

\* Entity.takeDamage: the entity after the call
takeDamage(e, damage) ==
    [e EXCEPT !.health = IF e.health - damage > 0 THEN e.health - damage
                         ELSE 0]

\* Entity.getDistance(other) <= 1.5, on the squares
InReach(a, b) == 4 * Dist2(a, b) <= 9

\* Monster.moveTowardsPlayer: the monster after the call
moveTowardsPlayer(s) ==
    LET m == s.monster
        dx == s.player.x - m.x
        dy == s.player.y - m.y
        moveX == IF Abs(dx) > Abs(dy) THEN Sign(dx)
                 ELSE IF Abs(dy) > Abs(dx) THEN 0
                 ELSE IF dx # 0 THEN Sign(dx) ELSE 0
        moveY == IF Abs(dx) > Abs(dy) THEN 0
                 ELSE IF Abs(dy) > Abs(dx) THEN Sign(dy)
                 ELSE IF dx # 0 THEN Sign(dy) ELSE 0
    IN  IF EntityCanMoveTo(s, m.x + moveX, m.y + moveY)
        THEN EntityMoveTo(s, m, m.x + moveX, m.y + moveY)
        ELSE IF moveX # 0
             THEN IF EntityCanMoveTo(s, m.x + moveX, m.y)
                  THEN EntityMoveTo(s, m, m.x + moveX, m.y)
                  ELSE EntityMoveTo(s, m, m.x, m.y + moveY)
             ELSE m

\* Monster.attackPlayer for the draw r of Math.random(); gameOver() stops
\* the game when the player is killed.
attackPlayer(s, r) ==
    LET damage == RandInt(r, 10 - 5 + 1) + 5
        hurt == takeDamage(s.player, damage)
    IN  [s EXCEPT !.player = hurt,
                  !.running = IF hurt.health <= 0 THEN FALSE ELSE @]

\* the attack test of Monster.update without the interval
attackDue_Always(s) == TRUE

\* now - game.lastMonsterAttack >= CONFIG.MONSTER_ATTACK_INTERVAL
attackDue(s) == s.now - s.lastMonsterAttack >= MONSTER_ATTACK_INTERVAL

\* now - game.lastMonsterMove >= CONFIG.MONSTER_MOVE_INTERVAL
moveDue(s) == s.now - s.lastMonsterMove >= MONSTER_MOVE_INTERVAL

\* Monster.update for the draw r: the game object after the call
update(s, r) ==
    IF InReach(s.monster, s.player)
    THEN LET a == IF attackDue(s)
                  THEN [attackPlayer(s, r) EXCEPT !.lastMonsterAttack = s.now]
                  ELSE s
         IN  [a EXCEPT !.monster.state = "attacking"]
    ELSE LET h == [s EXCEPT !.monster.state = "hunting"]
         IN  IF moveDue(h)
             THEN [h EXCEPT !.monster = moveTowardsPlayer(h),
                            !.lastMonsterMove = s.now]
             ELSE h

\* Player.attack(game.monster) for the draw r
PlayerAttack(s, r) ==
    IF s.now - s.lastPlayerAttack < PLAYER_ATTACK_COOLDOWN THEN s
    ELSE IF InReach(s.player, s.monster)
    THEN LET damage == RandInt(r, 12 - 8 + 1) + 8
             hurt == takeDamage(s.monster, damage)
         IN  [s EXCEPT !.monster = IF hurt.health <= 0 THEN NoMonster
                                   ELSE hurt,
                       !.lastPlayerAttack = s.now]
    ELSE s

\* The map the page is explored on: a walkable square with the player's
\* start in one corner and one stone in it, trees elsewhere.
Yard == {c \in Xs \X Ys : c[1] \in 10..13 /\ c[2] \in 7..10}

YardDraws ==
    { [y \in Ys |-> [x \in Xs |->
         IF <<x, y>> = <<11, 8>> THEN TileDraw.STONE
         ELSE IF <<x, y>> \in Yard \/ IsBorder(x, y) THEN TileDraw.GRASS
         ELSE TileDraw.TREE]] }

\* Date.now() when the page is loaded: later than every interval.
PageLoad == MONSTER_ATTACK_INTERVAL + MONSTER_MOVE_INTERVAL

\* The time between two looks at the page, and the time explored.
FrameGap == MONSTER_MOVE_INTERVAL \div 2

PageEnd == PageLoad + MaxFrames * FrameGap

\* init(): generateMap(), the player at the centre, the monster on the
\* cell <<mx, my>> the do-while loop ends on.
init(rnd, mx, my) ==
    LET m == generateMap(rnd)
        px == MAP_WIDTH \div 2
        py == MAP_HEIGHT \div 2
    IN  /\ TILES[m[my][mx]].walkable
        /\ ~(mx = px /\ my = py)
        /\ Abs(mx - px) >= 3
        /\ Abs(my - py) >= 3
        /\ single = Closed
        /\ single' = [page |-> "open",
                      running |-> TRUE,
                      map |-> m,
                      player |-> NewPlayer(px, py),
                      monster |-> NewMonster(mx, my),
                      lastMonsterMove |-> 0,
                      lastMonsterAttack |-> 0,
                      lastPlayerAttack |-> 0,
                      now |-> PageLoad,
                      hits |-> << >>,
                      steps |-> << >>]
        /\ UNCHANGED <<ServerVars, game, toClient, toServer, editor>>

\* The record of what the monster did: the time of its latest blow and of
\* its latest change of cell.
Chronicle(s, t) ==
    [t EXCEPT !.hits = IF t.player.health < s.player.health
                       THEN <<s.now>> ELSE s.hits,
              !.steps = IF <<t.monster.x, t.monster.y>>
                           # <<s.monster.x, s.monster.y>>
                        THEN <<s.now>> ELSE s.steps]

\* gameLoop(timestamp): one frame of the page, for the draw r
Frame(r) ==
    /\ single # Closed
    /\ single.running
    /\ single' = IF single.monster # NoMonster
                 THEN Chronicle(single, update(single, r))
                 ELSE single
    /\ UNCHANGED <<ServerVars, game, toClient, toServer, editor>>

\* the keydown listener of the page, for the key and the draw r
Keydown(key, r) ==
    /\ single # Closed
    /\ single.running
    /\ single' =
         IF key = " "
         THEN IF single.monster # NoMonster THEN PlayerAttack(single, r)
              ELSE single
         ELSE [single EXCEPT !.player =
                  EntityMoveTo(single, single.player,
                               single.player.x + KeyStep(key).x,
                               single.player.y + KeyStep(key).y)]
    /\ UNCHANGED <<ServerVars, game, toClient, toServer, editor>>

\* Date.now() advances between two events of the page.
Elapse ==
    /\ single # Closed
    /\ single.now < PageEnd
    /\ single' = [single EXCEPT !.now = @ + FrameGap]
    /\ UNCHANGED <<ServerVars, game, toClient, toServer, editor>>

\* The keys pressed and the draws of the damage explored: the monster's
\* weakest and hardest blow, the player's hardest.
SoloKeys == {"d", " "}

BlowDraws == {0, RandScale - 1}

StrikeDraws == {RandScale - 1}

NextSolo ==
    \/ \E rnd \in YardDraws, mx \in Xs, my \in Ys : init(rnd, mx, my)
    \/ \E r \in BlowDraws : Frame(r)
    \/ \E key \in SoloKeys, r \in StrikeDraws : Keydown(key, r)
    \/ Elapse

SpecSolo == listen(FieldMaps) /\ [][NextSolo]_vars

\* --------------------------------------------------------- map editor
\* The editor page keeps everything in one editor object.  A tile object
\* is written as its spriteId, null as "null"; an array is a sequence, so
\* tiles[y][x] of the code is tiles[y + 1][x + 1] here, and the slot an
\* assignment past the end of a row leaves empty is "hole".  history and
\* historyIndex keep the code's counting from 0.  Only the tile mode of the
\* editor is entered, and there is the one ground layer.

maxHistory == 50

EDITOR_WIDTH == 20
EDITOR_HEIGHT == 15
EDITOR_TILE_SIZE == 32

\* editor.selectedSprite = null
NoSprite == "none"

\* editor.allSprites, by id
AllSprites == {"grass"}

EmptyTiles(w, h) == [y \in 1..h |-> [x \in 1..w |-> "null"]]

\* JSON.parse(JSON.stringify(layers)): a copy in which every empty slot of
\* an array has become null
JSONCopy(layers) ==
    [l \in 1..Len(layers) |->
        [layers[l] EXCEPT !.tiles =
            [y \in 1..Len(@) |->
                [x \in 1..Len(@[y]) |->
                    IF @[y][x] = "hole" THEN "null" ELSE @[y][x]]]]]

\* saveToHistory without the limit on the size
saveToHistory_Unlimited(e) ==
    [e EXCEPT !.history = Append(SubSeq(@, 1, e.historyIndex + 1),
                                 JSONCopy(e.layers)),
              !.historyIndex = @ + 1,
              !.saves = Min(@ + 1, maxHistory + 1)]

\* saveToHistory(): the editor after the call
saveToHistory(e) ==
    LET pushed == Append(SubSeq(e.history, 1, e.historyIndex + 1),
                         JSONCopy(e.layers))
        counted == [e EXCEPT !.saves = Min(@ + 1, maxHistory + 1)]
    IN  IF Len(pushed) > maxHistory
        THEN [counted EXCEPT !.history = Tail(pushed)]
        ELSE [counted EXCEPT !.history = pushed, !.historyIndex = @ + 1]

\* undo(): the editor after the call
undo(e) ==
    IF e.historyIndex > 0
    THEN [e EXCEPT !.historyIndex = @ - 1,
                   !.layers = JSONCopy(e.history[e.historyIndex])]
    ELSE e

\* redo(): the editor after the call
redo(e) ==
    IF e.historyIndex < Len(e.history) - 1
    THEN [e EXCEPT !.historyIndex = @ + 1,
                   !.layers = JSONCopy(e.history[e.historyIndex + 2])]
    ELSE e

\* tiles[y][x] ? tiles[y][x].spriteId : null, for a row y that exists
IdAt(tiles, x, y) ==
    IF x + 1 > Len(tiles[y + 1]) THEN "null"
    ELSE IF tiles[y + 1][x + 1] = "hole" THEN "null"
    ELSE tiles[y + 1][x + 1]

\* tiles[y][x] = v, for a row y that exists
SetTile(tiles, x, y, v) ==
    LET row == tiles[y + 1]
    IN  [tiles EXCEPT ![y + 1] =
            [i \in 1..(IF x + 1 > Len(row) THEN x + 1 ELSE Len(row)) |->
                IF i = x + 1 THEN v
                ELSE IF i > Len(row) THEN "hole"
                ELSE row[i]]]

\* The loop of floodFill on a layer that has every row of the map: the
\* cells it replaces are those that hold targetId and are joined to the
\* first cell by steps to the right, left, down and up through such cells.
\* region is what is replaced so far, edge the cells of it added last.
RECURSIVE FloodLoop(_, _, _, _)
FloodLoop(e, targetId, region, edge) ==
    LET next == { c \in UNION { { <<d[1] + 1, d[2]>>, <<d[1] - 1, d[2]>>,
                                 <<d[1], d[2] + 1>>, <<d[1], d[2] - 1>> } :
                                d \in edge } :
                    /\ c \notin region
                    /\ ~(c[1] < 0 \/ c[1] >= e.mapWidth
                           \/ c[2] < 0 \/ c[2] >= e.mapHeight)
                    /\ IdAt(e.layers[1].tiles, c[1], c[2]) = targetId }
    IN  IF next = {} THEN region
        ELSE FloodLoop(e, targetId, region \cup next, next)

\* floodFill(x, y, targetTile, replacementTile): the tiles after the call
floodFill(e, x, y, targetId, replacementId) ==
    IF targetId = replacementId THEN e.layers[1].tiles
    ELSE LET tiles == e.layers[1].tiles
             region == FloodLoop(e, targetId, { <<x, y>> }, { <<x, y>> })
         IN  [cy \in 1..Len(tiles) |->
                 [cx \in 1..(IF cy <= e.mapHeight
                                  /\ e.mapWidth > Len(tiles[cy])
                                  /\ \E c \in region : c[2] = cy - 1
                             THEN Max({c[1] + 1 : c \in
                                        {r \in region : r[2] = cy - 1}}
                                      \cup {Len(tiles[cy])})
                             ELSE Len(tiles[cy])) |->
                     IF <<cx - 1, cy - 1>> \in region THEN replacementId
                     ELSE IF cx > Len(tiles[cy]) THEN "hole"
                     ELSE tiles[cy][cx]]]

\* handleCanvasInteraction(e) for the event over tile <<x, y>>: the editor
\* after the call.  An event over a row the layer does not have throws
\* where the code reads layer.tiles[y][x], and nothing is changed.
handleCanvasInteraction(e, x, y) ==
    LET tiles == e.layers[1].tiles
    IN  IF x < 0 \/ x >= e.mapWidth \/ y < 0 \/ y >= e.mapHeight THEN e
        ELSE IF e.currentTool = "pencil"
        THEN IF e.selectedSprite = NoSprite \/ y + 1 > Len(tiles) THEN e
             ELSE [e EXCEPT !.layers[1].tiles =
                                SetTile(tiles, x, y, e.selectedSprite)]
        ELSE IF e.currentTool = "eraser"
        THEN IF y + 1 > Len(tiles) THEN e
             ELSE [e EXCEPT !.layers[1].tiles = SetTile(tiles, x, y, "null")]
        ELSE IF e.currentTool = "eyedropper"
        THEN IF y + 1 > Len(tiles) THEN e
             ELSE IF IdAt(tiles, x, y) \in AllSprites
             THEN [e EXCEPT !.selectedSprite = IdAt(tiles, x, y),
                            !.currentTool = "pencil"]
             ELSE e
        ELSE IF e.selectedSprite = NoSprite \/ y + 1 > Len(tiles) THEN e
             ELSE saveToHistory(
                     [e EXCEPT !.layers[1].tiles =
                         floodFill(e, x, y, IdAt(tiles, x, y),
                                   e.selectedSprite)])

\* the resize of one layer in the handler of applyMapSettings
Resized(tiles, w, h) ==
    [y \in 1..h |->
        [x \in 1..w |->
            IF y <= Len(tiles) /\ x <= Len(tiles[y])
                 /\ tiles[y][x] \notin {"null", "hole"}
            THEN tiles[y][x] ELSE "null"]]

\* What is known about the edit made last, to state what undo and redo
\* owe it: nothing; or the layers before and after the edit just
\* completed, just undone, just redone.
NoMark == [phase |-> "none"]

Mark(phase, before, after) ==
    [phase |-> phase, before |-> before, after |-> after]

\* The work a former visit may have left in localStorage.
NoWork == [layers |-> << >>]

SavedWork ==
    { NoWork,
      [layers |-> << [name |-> "Ground Layer", visible |-> TRUE,
                      tiles |-> SetTile(EmptyTiles(EDITOR_WIDTH,
                                                   EDITOR_HEIGHT),
                                        0, 0, "grass")] >>,
       mapWidth |-> EDITOR_WIDTH, mapHeight |-> EDITOR_HEIGHT,
       tileSize |-> EDITOR_TILE_SIZE] }

\* The editor object as declared, before init() runs.
NewEditor ==
    [page |-> "open",
     selectedSprite |-> NoSprite,
     mapWidth |-> EDITOR_WIDTH,
     mapHeight |-> EDITOR_HEIGHT,
     tileSize |-> EDITOR_TILE_SIZE,
     layers |-> << [name |-> "Ground Layer", visible |-> TRUE,
                    tiles |-> << >>] >>,
     currentTool |-> "pencil",
     isDrawing |-> FALSE,
     history |-> << >>,
     historyIndex |-> -1,
     saves |-> 0,
     stroke |-> << >>,
     mark |-> NoMark]

\* initializeMap(): the editor after the call
initializeMap(e) ==
    saveToHistory([e EXCEPT !.layers[1].tiles =
                               EmptyTiles(e.mapWidth, e.mapHeight)])

\* loadFromLocalStorage() when localStorage holds `saved` and the user
\* answers `restore` to the question
loadFromLocalStorage(e, saved, restore) ==
    IF saved # NoWork /\ restore
    THEN [e EXCEPT !.layers = saved.layers,
                   !.mapWidth = saved.mapWidth,
                   !.mapHeight = saved.mapHeight,
                   !.tileSize = saved.tileSize]
    ELSE e

Elsewhere == UNCHANGED <<ServerVars, game, toClient, toServer, single>>

\* init()
EditorInit(saved, restore) ==
    /\ editor = Closed
    /\ editor' = loadFromLocalStorage(initializeMap(NewEditor), saved,
                                      restore)
    /\ Elsewhere

\* A click outside the canvas comes after the mouseleave of the canvas,
\* which ends the press.
Released == editor # Closed /\ ~editor.isDrawing

\* selectSprite(sprite), on the click on a sprite of the palette
SelectSprite(sprite) ==
    /\ Released
    /\ editor' = [editor EXCEPT !.selectedSprite = sprite]
    /\ Elsewhere

\* setTool(tool), on the key of the tool or the click on its button
SetTool(tool) ==
    /\ editor # Closed
    /\ editor' = [editor EXCEPT !.currentTool = tool]
    /\ Elsewhere

\* handleCanvasMouseDown over tile <<x, y>>.  The browser sends mousedown
\* on the canvas only after the mouseup or mouseleave of the press before.
MouseDown(x, y) ==
    /\ editor # Closed
    /\ ~editor.isDrawing
    /\ editor' = [handleCanvasInteraction(
                     [editor EXCEPT !.isDrawing = TRUE], x, y)
                  EXCEPT !.stroke = <<editor.layers>>, !.mark = NoMark]
    /\ Elsewhere

\* handleCanvasMouseMove over tile <<x, y>>
MouseMove(x, y) ==
    /\ editor # Closed
    /\ editor' = IF editor.isDrawing
                 THEN handleCanvasInteraction(editor, x, y)
                 ELSE editor
    /\ Elsewhere

\* The press that ends now made an edit: a stroke of the pencil with a
\* sprite, a stroke of the eraser, or a fill with a sprite.
MadeEdit(e) ==
    \/ e.currentTool = "eraser"
    \/ e.currentTool \in {"pencil", "fill"} /\ e.selectedSprite # NoSprite

\* handleCanvasMouseUp, on mouseup and on mouseleave
MouseUp ==
    /\ editor # Closed
    /\ editor' =
         IF editor.isDrawing
         THEN LET e == saveToHistory([editor EXCEPT !.isDrawing = FALSE])
              IN  [e EXCEPT !.stroke = << >>,
                            !.mark = IF MadeEdit(editor)
                                     THEN Mark("edited", editor.stroke[1],
                                               e.layers)
                                     ELSE NoMark]
         ELSE editor
    /\ Elsewhere

\* Ctrl+Z, and the click on undoBtn
Undo ==
    /\ editor # Closed
    /\ editor' = [undo(editor) EXCEPT !.mark =
                     IF @.phase = "edited" /\ ~editor.isDrawing
                     THEN [@ EXCEPT !.phase = "undone"] ELSE NoMark]
    /\ Elsewhere

\* Ctrl+Y, and the click on redoBtn
Redo ==
    /\ editor # Closed
    /\ editor' = [redo(editor) EXCEPT !.mark =
                     IF @.phase = "undone" /\ ~editor.isDrawing
                     THEN [@ EXCEPT !.phase = "redone"] ELSE NoMark]
    /\ Elsewhere

\* the click on clearBtn, confirmed
Clear ==
    /\ Released
    /\ editor' =
         LET e == saveToHistory(
                     [editor EXCEPT !.layers[1].tiles =
                         EmptyTiles(editor.mapWidth, editor.mapHeight)])
         IN  [e EXCEPT !.mark = Mark("edited", editor.layers, e.layers)]
    /\ Elsewhere

\* the click on fillAllBtn, confirmed.  Rows the layer does not have
\* throw at the first of them, after the rows before it were filled.
FillAll ==
    /\ Released
    /\ editor' =
         IF editor.selectedSprite = NoSprite THEN editor
         ELSE LET tiles == editor.layers[1].tiles
                  rows == Min(editor.mapHeight, Len(tiles))
                  filled ==
                     [editor EXCEPT !.layers[1].tiles =
                         [y \in 1..Len(tiles) |->
                             IF y <= rows
                             THEN [x \in 1..(IF editor.mapWidth
                                               > Len(tiles[y])
                                             THEN editor.mapWidth
                                             ELSE Len(tiles[y])) |->
                                     IF x <= editor.mapWidth
                                     THEN editor.selectedSprite
                                     ELSE tiles[y][x]]
                             ELSE tiles[y]]]
              IN  IF editor.mapHeight > Len(tiles) THEN
                      [filled EXCEPT !.mark = NoMark]
                  ELSE LET e == saveToHistory(filled)
                       IN  [e EXCEPT !.mark =
                               Mark("edited", editor.layers, e.layers)]
    /\ Elsewhere

\* the click on newMapBtn, confirmed
NewMap ==
    /\ Released
    /\ editor' = [initializeMap(editor) EXCEPT !.mark = NoMark]
    /\ Elsewhere

\* the click on applyMapSettings with the three numbers typed
ApplyMapSettings(newWidth, newHeight, newTileSize) ==
    /\ Released
    /\ editor' =
         IF newWidth < 5 \/ newWidth > 100 \/ newHeight < 5
              \/ newHeight > 100 THEN editor
         ELSE IF newTileSize < 16 \/ newTileSize > 64 THEN editor
         ELSE [saveToHistory(
                  [editor EXCEPT !.mapWidth = newWidth,
                                 !.mapHeight = newHeight,
                                 !.tileSize = newTileSize,
                                 !.layers[1].tiles =
                                     Resized(@, newWidth, newHeight)])
               EXCEPT !.mark = NoMark]
    /\ Elsewhere

\* One more state may be saved.
Room == editor # Closed /\ editor.saves < MaxSaves

\* The layer has every row of the map.
Covered == editor # Closed /\ Len(editor.layers[1].tiles) >= editor.mapHeight

\* The tiles pressed, the tools taken and the settings typed.
PressedTiles == { <<0, 0>>, <<1, 0>> }

ToolsTaken == {"fill", "eraser"}

SettingsTyped == { <<5, 5, 32>>, <<4, 5, 32>> }

NextEdit ==
    \/ \E saved \in SavedWork, restore \in BOOLEAN :
          EditorInit(saved, restore)
    \/ \E sprite \in AllSprites : SelectSprite(sprite)
    \/ \E tool \in ToolsTaken : SetTool(tool)
    \/ \E c \in PressedTiles : Room /\ Covered /\ MouseDown(c[1], c[2])
    \/ \E c \in PressedTiles : Room /\ Covered /\ MouseMove(c[1], c[2])
    \/ Room /\ MouseUp
    \/ Undo
    \/ Redo
    \/ Room /\ Clear
    \/ Room /\ FillAll
    \/ Room /\ NewMap
    \/ \E s \in SettingsTyped : Room /\ ApplyMapSettings(s[1], s[2], s[3])

SpecEdit == listen(FieldMaps) /\ [][NextEdit]_vars

\* A long session that only clears, undoes and redoes: every state saved
\* is the empty map, and the history fills up.
NextHistory ==
    \/ EditorInit(NoWork, FALSE)
    \/ Clear
    \/ Undo
    \/ Redo

SpecHistory == listen(FieldMaps) /\ [][NextHistory]_vars

\* ------------------------------------------------------------ claims
\* What the claims say of a tile, stated without the server's own test.
InBounds(x, y) == 0 <= x /\ x < MAP_WIDTH /\ 0 <= y /\ y < MAP_HEIGHT

OnWalkableTile(x, y) == InBounds(x, y) /\ TILES[map[y][x]].walkable

OpenSessions == {c \in DOMAIN clients : clients[c] = "OPEN"}

\* The sessions that were sent a message of the given type by the last handler
Receivers(type) ==
    {sent[i].to : i \in {j \in 1..Len(sent) : sent[j].msg.type = type}}

\* The messages of the given type the last handler sent to session c
Received(c, type) ==
    SelectSeq(sent, LAMBDA e : e.to = c /\ e.msg.type = type)

\* The messages of the given type the last handler sent, as a set
SentOfType(type) ==
    {sent[i].msg : i \in {j \in 1..Len(sent) : sent[j].msg.type = type}}

\* C1: a move{x,y} of a session with a player puts the player at (x,y) when
\* (x,y) is inside the map and its tile is walkable, and leaves the player's
\* position as it was in every other case.
C1_MoveAcceptedIffWalkable ==
    [][ last'.op = "move" =>
          LET s == last'.sid
              x == last'.x
              y == last'.y
          IN  IF OnWalkableTile(x, y)
              THEN players'[s].x = x /\ players'[s].y = y
              ELSE players'[s].x = players[s].x /\ players'[s].y = players[s].y
      ]_vars

\* C1 witness: a move to a walkable tile was handled and the player is there,
\* while another player stayed elsewhere.
C1_Witness ==
    /\ last.op = "move"
    /\ OnWalkableTile(last.x, last.y)
    /\ players[last.sid].x = last.x /\ players[last.sid].y = last.y
    /\ \E o \in DOMAIN players :
          o # last.sid /\ <<players[o].x, players[o].y>> # <<last.x, last.y>>

\* C2: an accepted move is sent as playerMoved to every other open session
\* and not to the session that asked for it.
C2_MovedSentToOthersOnly ==
    (last.op = "move" /\ OnWalkableTile(last.x, last.y)) =>
        Receivers("playerMoved") = OpenSessions \ {last.sid}

\* C3: a move to a tile outside the map or not walkable changes nothing of
\* the world model and sends nothing to any session.
C3_RefusedMoveIsSilent ==
    [][ (last'.op = "move" /\ ~ OnWalkableTile(last'.x, last'.y)) =>
          /\ sent' = << >>
          /\ UNCHANGED <<map, players, nextPlayerId, clients, monsters,
                         fireballs, timers, idSeq>>
      ]_vars

\* C3 witness: the move to (0,0), a WATER tile of the border, was refused
\* while another session was open to hear of it.
C3_Witness ==
    /\ last.op = "move"
    /\ last.x = 0 /\ last.y = 0
    /\ map[0][0] = "WATER"
    /\ sent = << >>
    /\ OpenSessions \ {last.sid} # {}

\* C4: every player and every live monster stands on a tile that is inside
\* the map and walkable.
C4_EntitiesOnWalkableTiles ==
    /\ \A p \in DOMAIN players : OnWalkableTile(players[p].x, players[p].y)
    /\ \A i \in 1..Len(monsters) : OnWalkableTile(monsters[i].x, monsters[i].y)

\* C11: the ids given to players, in the order of the connections, are
\* strictly increasing: an id is never given twice, also after the player
\* that held it has disconnected; and every id in use is below the counter.
C11_PlayerIdsIncrease ==
    /\ \A i \in 1..Len(hist.ids) : \A j \in (i + 1)..Len(hist.ids) :
          hist.ids[i] < hist.ids[j]
    /\ \A id \in DOMAIN players \cup DOMAIN clients : id < nextPlayerId
    /\ last.op = "connection" => last.sid = hist.ids[Len(hist.ids)]

\* C11 witness: a player connected after the first player had disconnected,
\* and was given a greater id than the one that had become free.
C11_Witness ==
    /\ last.op = "connection"
    /\ Len(hist.ids) = 2
    /\ hist.ids[1] \notin DOMAIN players
    /\ hist.ids[2] > hist.ids[1]
    /\ hist.ids[2] \in DOMAIN players

\* C12: the players of the world model are the players of the live sessions,
\* one for one: every session in the registry has a player under its id, the
\* record carries that id, and no player is left without a session.
C12_PlayersMatchSessions ==
    /\ DOMAIN players = DOMAIN clients
    /\ \A p \in DOMAIN players : players[p].id = p
    /\ Cardinality({players[p].id : p \in DOMAIN players})
          = Cardinality(DOMAIN clients)

\* C12 witness: one session has disconnected and another is still live; the
\* only player left is the one of the live session.
C12_Witness ==
    /\ last.op = "close"
    /\ DOMAIN clients # {}
    /\ last.sid \notin DOMAIN players
    /\ DOMAIN players = DOMAIN clients

\* C13: on a connection the new session is sent one init and no
\* playerJoined, and every other open session one playerJoined with the new
\* player and nothing else; on a disconnect every open session that remains
\* is sent one playerLeft with the id of the player that left.
C13_JoinAndLeaveAnnounced ==
    /\ last.op = "connection" =>
          /\ Len(Received(last.sid, "init")) = 1
          /\ Len(Received(last.sid, "playerJoined")) = 0
          /\ \A c \in OpenSessions \ {last.sid} :
                SelectSeq(sent, LAMBDA e : e.to = c) =
                    << [to |-> c, msg |-> [type |-> "playerJoined",
                                           player |-> players[last.sid]]] >>
          /\ Len(sent) = Cardinality(OpenSessions)
    /\ last.op = "close" =>
          /\ \A c \in OpenSessions :
                SelectSeq(sent, LAMBDA e : e.to = c) =
                    << [to |-> c, msg |-> [type |-> "playerLeft",
                                           playerId |-> last.sid]] >>
          /\ Len(sent) = Cardinality(OpenSessions)

\* C13 witness: a player joined while another session was open, and that
\* session was told of it.
C13_Witness ==
    /\ last.op = "connection"
    /\ \E c \in OpenSessions \ {last.sid} : Len(Received(c, "playerJoined")) = 1
    /\ Len(Received(last.sid, "init")) = 1

\* C14: a fireball message of an open session with a player is handled
\* whatever that player cast before (the server has no cooldown); the
\* handler records one fireball that starts at the caster's position and
\* sends one fireballCast with it to every open session, the caster included.
C14_FireballAlwaysCast ==
    /\ Len(fireballs) < MaxFireballs =>
          \A sid \in OpenSessions \cap DOMAIN players :
              \A c \in CastTargets : ENABLED MsgFireball(sid, c[1], c[2])
    /\ last.op = "fireball" =>
          LET fb == fireballs[Len(fireballs)]
          IN  /\ fb.playerId = last.sid
              /\ fb.startX = players[last.sid].x
              /\ fb.startY = players[last.sid].y
              /\ last.sid \in OpenSessions
              /\ Len(sent) = Cardinality(OpenSessions)
              /\ \A c \in OpenSessions :
                    SelectSeq(sent, LAMBDA e : e.to = c) =
                        << [to |-> c, msg |-> [type |-> "fireballCast",
                                               fireball |-> fb]] >>

\* C14 witness: a player that had moved cast twice at the same time; the
\* second cast was handled and sent to the caster and to another session.
C14_Witness ==
    /\ last.op = "fireball"
    /\ Len(fireballs) = 2
    /\ fireballs[1].playerId = last.sid
    /\ fireballs[2].playerId = last.sid
    /\ fireballs[1].timestamp = fireballs[2].timestamp
    /\ fireballs[2].startX = 3 /\ fireballs[2].startY = 2
    /\ fireballs[1].startX # 3
    /\ Cardinality(OpenSessions) = 2
    /\ Len(sent) = 2

\* C16: a frame that does not parse changes nothing of the world model and
\* sends nothing, and its session stays in the registry, open; a move the
\* session sends afterwards is handled as any move: accepted on a walkable
\* tile inside the map and sent to the open sessions, refused otherwise.
C16_UnparseableFrameDropped ==
    [][ /\ last'.op = "garbled" =>
              /\ sent' = << >>
              /\ clients' = clients
              /\ clients'[last'.sid] = "OPEN"
              /\ UNCHANGED <<map, players, nextPlayerId, monsters, fireballs,
                             timers, now, idSeq>>
        /\ (last'.op = "move" /\ last'.sid \in hist.garbled) =>
              LET s == last'.sid
                  x == last'.x
                  y == last'.y
              IN  IF OnWalkableTile(x, y)
                  THEN /\ players'[s].x = x /\ players'[s].y = y
                       /\ Len(sent') = Cardinality(OpenSessions)
                       /\ \A k \in 1..Len(sent') :
                             sent'[k].msg = [type |-> "playerMoved",
                                             playerId |-> s, x |-> x, y |-> y]
                  ELSE players' = players /\ sent' = << >>
      ]_vars

\* C16 witness: a session whose earlier frame did not parse moved to (3,2),
\* and the move was accepted and broadcast.
C16_Witness ==
    /\ last.op = "move"
    /\ last.sid \in hist.garbled
    /\ last.x = 3 /\ last.y = 2
    /\ players[last.sid].x = 3 /\ players[last.sid].y = 2
    /\ Len(sent) >= 1

\* C17: the health of every player is within 0..maxHealth, and so is the
\* health every playerDamaged broadcast carries.
C17_PlayerHealthInRange ==
    /\ \A p \in DOMAIN players :
          players[p].health >= 0 /\ players[p].health <= players[p].maxHealth
    /\ \A m \in SentOfType("playerDamaged") :
          m.health >= 0 /\ m.health <= PLAYER_HEALTH

\* C20: every message a handler sends goes to a session whose connection is
\* open when it is sent; a session that is not open is sent nothing, then or
\* later, and the open sessions a broadcast is for are all sent it.
C20_OnlyOpenSessionsAreSent ==
    /\ \A k \in 1..Len(sent) :
          sent[k].to \in DOMAIN clients /\ clients[sent[k].to] = "OPEN"
    /\ last.op = "closing" => sent = << >>
    /\ (last.op = "move" /\ OnWalkableTile(last.x, last.y)) =>
          OpenSessions \subseteq Receivers("playerMoved")
    /\ last.op = "close" => OpenSessions \subseteq Receivers("playerLeft")
    /\ last.op = "connection" =>
          /\ OpenSessions \ {last.sid} \subseteq Receivers("playerJoined")
          /\ last.sid \in Receivers("init")

\* C20 witness: a move was accepted while the connection of another session
\* was closing; the open session was sent playerMoved, the closing one
\* nothing.
C20_Witness ==
    /\ last.op = "move"
    /\ OnWalkableTile(last.x, last.y)
    /\ \E c \in DOMAIN clients : clients[c] = "CLOSING"
    /\ Receivers("playerMoved") = OpenSessions
    /\ OpenSessions # {}

\* C10: the players of an init payload are the players of the sessions
\* connected when it is sent, the joiner among them, each with its record;
\* a player whose session has closed is not among them.
C10_InitListsConnectedPlayers ==
    last.op = "connection" =>
        LET inits == Received(last.sid, "init")
        IN  /\ Len(inits) = 1
            /\ LET listed == inits[1].msg.players
               IN  /\ {listed[i].id : i \in 1..Len(listed)} = DOMAIN clients
                   /\ Len(listed) = Cardinality(DOMAIN clients)
                   /\ last.sid \in DOMAIN clients
                   /\ \A i \in 1..Len(listed) :
                         listed[i] = players[listed[i].id]

\* C10 witness: a session joined after an earlier one had closed, and its
\* init lists the joiner alone.
C10_Witness ==
    /\ last.op = "connection"
    /\ \E gone \in 1..(last.sid - 1) : gone \notin DOMAIN clients
    /\ Len(Received(last.sid, "init")) = 1
    /\ Len(Received(last.sid, "init")[1].msg.players) = 1

\* The live monster with the given id, as a set of at most one record
Live(ms, id) == {ms[i] : i \in {j \in 1..Len(ms) : ms[j].id = id}}

IsLive(id) == Live(monsters, id) # {}

\* C5: a monster's health never increases and is never negative, in the
\* world model after every handler and in every monsterDamaged broadcast.
C5_MonsterHealthFallsAndStaysNonNegative ==
    [][ /\ \A i \in 1..Len(monsters') :
              /\ monsters'[i].health >= 0
              /\ \A m \in Live(monsters, monsters'[i].id) :
                    monsters'[i].health <= m.health
        /\ \A k \in 1..Len(sent') :
              sent'[k].msg.type = "monsterDamaged" =>
                  /\ sent'[k].msg.health >= 0
                  /\ \A m \in Live(monsters, sent'[k].msg.monsterId) :
                        sent'[k].msg.health <= m.health
      ]_vars

\* C5 witness: a hit took more than the monster had left (the health would
\* be negative), and no live monster and no broadcast holds that health.
C5_Witness ==
    /\ last.op \in {"attack", "fireballHit"}
    /\ last.found
    /\ ~ IsLive(last.monsterId)
    /\ 15 * last.fb + last.melee > 50
    /\ SentOfType("monsterDamaged") = {}
    /\ OpenSessions # {}

\* C15: an attack or fireballHit naming an id that no live monster has (an
\* id never given, or the id of a dead monster) changes nothing of the world
\* model, sends nothing and schedules no respawn.
C15_UnknownMonsterIsNoOp ==
    [][ (last'.op \in {"attack", "fireballHit"}
            /\ Live(monsters, last'.monsterId) = {}) =>
          /\ sent' = << >>
          /\ UNCHANGED <<map, players, nextPlayerId, clients, monsters,
                         fireballs, timers, now, idSeq, hist>>
      ]_vars

\* C15 witness: open sessions, live monsters, and the last message named an
\* id no monster was ever given; nothing was sent.
C15_Witness ==
    /\ last.op \in {"attack", "fireballHit"}
    /\ last.monsterId > idSeq
    /\ ~ last.found
    /\ Len(monsters) > 0
    /\ Cardinality(OpenSessions) = 2
    /\ sent = << >>

\* C19: every cell of row 0, the last row, column 0 and the last column is
\* WATER and not walkable; every cell holds one of the five tile types and is
\* walkable exactly when its type is GRASS or DIRT; and no handler, tick or
\* respawn changes a tile.
C19_State ==
    \A y \in 0..(MAP_HEIGHT - 1), x \in 0..(MAP_WIDTH - 1) :
        /\ map[y][x] \in {"GRASS", "WATER", "TREE", "STONE", "DIRT"}
        /\ Walkable(x, y) <=> map[y][x] \in {"GRASS", "DIRT"}
        /\ (x = 0 \/ y = 0 \/ x = MAP_WIDTH - 1 \/ y = MAP_HEIGHT - 1) =>
              (map[y][x] = "WATER" /\ ~ Walkable(x, y))

C6_OneDeathOneRespawn ==
    \A id \in 1..MaxMonsterId :
        IF id <= idSeq /\ ~ IsLive(id)
        THEN hist.died[id] = 1 /\ hist.scheduled[id] = 1
        ELSE hist.died[id] = 0 /\ hist.scheduled[id] = 0

\* C6 witness: a message naming a monster that had died was handled, and
\* the monster's death is still counted once.
C6_Witness ==
    /\ last.op \in {"attack", "fireballHit"}
    /\ ~ last.found
    /\ last.monsterId <= idSeq
    /\ hist.died[last.monsterId] = 1
    /\ hist.scheduled[last.monsterId] = 1

\* C7: every hit handled against a live monster is in its health: the
\* health is the full health less 15 for each fireballHit and less the
\* damage of each attack, whichever sessions sent them, in whatever order
\* and with AI ticks in between.
C7_NoHitLost ==
    \A i \in 1..Len(monsters) :
        monsters[i].health =
            50 - 15 * hist.fb[monsters[i].id] - hist.melee[monsters[i].id]

\* C7 witness: two sessions each hit the same monster once with a fireball,
\* an AI tick has moved the monster, and its health is 30 less than before.
C7_Witness ==
    /\ last.op = "fireballHit"
    /\ \E i \in 1..Len(monsters) :
          /\ monsters[i].id = last.monsterId
          /\ Cardinality(hist.hitBy[monsters[i].id]) = 2
          /\ hist.fb[monsters[i].id] = 2
          /\ hist.melee[monsters[i].id] = 0
          /\ monsters[i].health = 20
          /\ monsters[i].lastMove > 0

\* C8: each monsterDied broadcast has one respawn timer, which is never
\* dropped and runs 5000 ms after the broadcast; the callback adds exactly
\* one monster, at full health on a walkable tile inside the map, and
\* announces it with monsterSpawned; and every scheduled respawn does run.
C8_State ==
    /\ Len(hist.spawnedAt) + Len(timers) = Len(hist.diedAt)
    /\ \A n \in 1..Len(hist.spawnedAt) :
          hist.spawnedAt[n] = hist.diedAt[n] + 5000
    /\ \A n \in (Len(hist.spawnedAt) + 1)..Len(hist.diedAt) :
          now <= hist.diedAt[n] + 5000
    /\ last.op = "respawn" =>
          LET m == monsters[Len(monsters)]
          IN  /\ m.health = 50 /\ m.maxHealth = 50
              /\ OnWalkableTile(m.x, m.y)
              /\ \A i \in 1..(Len(monsters) - 1) : monsters[i].id # m.id
              /\ Len(sent) = Cardinality(OpenSessions)
              /\ Receivers("monsterSpawned") = OpenSessions
              /\ \A k \in 1..Len(sent) :
                    sent[k].msg = [type |-> "monsterSpawned", monster |-> m]

C8_Step ==
    /\ last'.op = "respawn" => Len(monsters') = Len(monsters) + 1
    /\ Len(hist'.spawnedAt) > Len(hist.spawnedAt) => last'.op = "respawn"
    /\ Len(timers') < Len(timers) => last'.op = "respawn"

C8_RespawnAfterDelay ==
    /\ []C8_State
    /\ [][C8_Step]_vars
    /\ \A n \in 1..(MaxMonsterId - MONSTER_COUNT) :
          (Len(hist.diedAt) >= n) ~> (Len(hist.spawnedAt) >= n)

\* C8 witness: a respawn ran 5000 ms after a death and told an open session.
C8_Witness ==
    /\ last.op = "respawn"
    /\ Len(hist.spawnedAt) >= 1
    /\ now = hist.diedAt[Len(hist.spawnedAt)] + 5000
    /\ OpenSessions # {}
    /\ Len(monsters) = MONSTER_COUNT

\* C9: a fireballHit on a live monster of health h takes exactly 15: for
\* h > 15 the monster stays with h - 15, which monsterDamaged reports; for
\* h <= 15 the monster is removed and monsterDied is sent and no
\* monsterDamaged.  Hit by fireballs alone, a monster reports 35, 20, 5 and
\* dies of the fourth.
C9_Step ==
    (last'.op = "fireballHit" /\ last'.found) =>
        LET id == last'.monsterId
            h == (CHOOSE m \in Live(monsters, id) : TRUE).health
            all == OpenSessions
        IN  IF h > 15
            THEN /\ \E m \in Live(monsters', id) : m.health = h - 15
                 /\ \A k \in 1..Len(sent') :
                       sent'[k].msg = [type |-> "monsterDamaged",
                                       monsterId |-> id, health |-> h - 15,
                                       damage |-> 15]
                 /\ {sent'[k].to : k \in 1..Len(sent')} = all
            ELSE /\ Live(monsters', id) = {}
                 /\ \A k \in 1..Len(sent') :
                       sent'[k].msg = [type |-> "monsterDied", monsterId |-> id]
                 /\ {sent'[k].to : k \in 1..Len(sent')} = all

C9_Sequence ==
    (last.op = "fireballHit" /\ last.found /\ last.melee = 0) =>
        LET id == last.monsterId
            n == last.fb
            reported == {m.health : m \in SentOfType("monsterDamaged")}
        IN  /\ n \in 1..4
            /\ n = 1 => (IsLive(id) /\ (OpenSessions # {} => reported = {35}))
            /\ n = 2 => (IsLive(id) /\ (OpenSessions # {} => reported = {20}))
            /\ n = 3 => (IsLive(id) /\ (OpenSessions # {} => reported = {5}))
            /\ n = 4 => (~ IsLive(id) /\ reported = {})

C9_FireballTakesFifteen ==
    /\ []C9_Sequence
    /\ [][C9_Step]_vars

\* C9 witness: the fourth fireball in a row killed a monster, and the
\* sessions were told of its death and of no health.
C9_Witness ==
    /\ last.op = "fireballHit"
    /\ last.found
    /\ last.fb = 4
    /\ last.melee = 0
    /\ ~ IsLive(last.monsterId)
    /\ SentOfType("monsterDied") # {}
    /\ SentOfType("monsterDamaged") = {}

\* The move frames of client c the server has not handled yet
PendingMoves(c) == SelectSeq(toServer[c], LAMBDA m : m.type = "move")

\* The replica of client c is the server's state, but for the position of
\* its own player while a move of its is on the way to the server.
ReplicaAgrees(c) ==
    LET g == game[c]
    IN  /\ DOMAIN g.players = DOMAIN players
        /\ \A p \in DOMAIN players :
              /\ g.players[p].health = players[p].health
              /\ (p # c \/ PendingMoves(c) = << >>) =>
                    /\ g.players[p].x = players[p].x
                    /\ g.players[p].y = players[p].y
        /\ DOMAIN g.monsters = {monsters[i].id : i \in 1..Len(monsters)}
        /\ \A i \in 1..Len(monsters) :
              LET m == g.monsters[monsters[i].id]
              IN  /\ m.x = monsters[i].x
                  /\ m.y = monsters[i].y
                  /\ m.health = monsters[i].health

TickStep == last'.op = "tick"

\* Monster i acts in the tick that starts now
Acting(i) == now - monsters[i].lastMove > MOVE_INTERVAL

\* The player monster i goes for: the nearest, 0 when there is none
Target(i) == NearestPlayer(players, monsters[i])

\* The nearest player is within distance 1.5
Near(i) == 4 * Dist2(players[Target(i)], monsters[i]) <= 9

\* The step monster i prefers: along the longer axis, diagonal on a tie
Preferred(i) ==
    LET dx == players[Target(i)].x - monsters[i].x
        dy == players[Target(i)].y - monsters[i].y
    IN  [x |-> IF Abs(dx) >= Abs(dy) /\ dx # 0 THEN Sign(dx) ELSE 0,
         y |-> IF Abs(dy) >= Abs(dx) /\ dy # 0 THEN Sign(dy) ELSE 0]

Cell(m) == <<m.x, m.y>>

Open(c) == OnWalkableTile(c[1], c[2])

\* C21: every monster stands on a walkable tile inside the map, and a
\* monster whose preferred step leads to a tile that is not walkable keeps
\* its position in that tick.
C21_State == \A i \in 1..Len(monsters) : Open(Cell(monsters[i]))

C21_Step ==
    TickStep =>
      \A i \in 1..Len(monsters) :
         LET m == monsters[i]
         IN  (/\ Acting(i) /\ Target(i) # 0
              /\ ~ Open(<<m.x + Preferred(i).x, m.y + Preferred(i).y>>))
             => Cell(monsters'[i]) = Cell(m)

C21_MonsterStepOnWalkableTile == []C21_State /\ [][C21_Step]_vars

\* C21 witness: a monster has just acted, the tile of its preferred step is
\* the stone, and it stands where it stood.
C21_Witness ==
    /\ last.op = "tick"
    /\ now > 0
    /\ \E i \in 1..Len(monsters) :
          /\ monsters[i].lastMove = now
          /\ Target(i) # 0
          /\ Cell(monsters[i]) = <<3, 2>>
          /\ ~ Open(<<monsters[i].x + Preferred(i).x,
                      monsters[i].y + Preferred(i).y>>)

\* C29: a monster whose preferred step is diagonal and leads to a tile that
\* is not walkable moves by the horizontal part of the step if that tile is
\* walkable, else by the vertical part if that tile is, and stays otherwise.
C29_Step ==
    TickStep =>
      \A i \in 1..Len(monsters) :
         LET m == monsters[i]
             px == Preferred(i).x
             py == Preferred(i).y
         IN  (/\ Acting(i) /\ Target(i) # 0
              /\ px # 0 /\ py # 0
              /\ ~ Open(<<m.x + px, m.y + py>>))
             => Cell(monsters'[i]) =
                   IF Open(<<m.x + px, m.y>>) THEN <<m.x + px, m.y>>
                   ELSE IF Open(<<m.x, m.y + py>>) THEN <<m.x, m.y + py>>
                   ELSE Cell(m)

C29_DiagonalFallsBackToAxes == [][C29_Step]_vars

\* C26: in a tick a monster within 1.5 of its nearest player keeps its
\* position, and a monster farther away takes its step and deals no damage:
\* a player loses health only to a monster within 1.5 of it.
C26_Step ==
    TickStep =>
      /\ \A i \in 1..Len(monsters) :
            LET m == monsters[i]
                to == <<m.x + Preferred(i).x, m.y + Preferred(i).y>>
            IN  (Acting(i) /\ Target(i) # 0) =>
                  /\ Near(i) => Cell(monsters'[i]) = Cell(m)
                  /\ (~ Near(i) /\ Open(to)) => Cell(monsters'[i]) = to
      /\ \A p \in DOMAIN players :
            players'[p].health < players[p].health =>
               \E i \in 1..Len(monsters) :
                  Acting(i) /\ Target(i) = p /\ Near(i)

C26_HuntingOrAttacking == [][C26_Step]_vars

\* The frames of the given types that a handler sent to session c, in order
FramesTo(msgs, c, types) ==
    LET mine == SelectSeq(msgs, LAMBDA e : e.to = c /\ e.msg.type \in types)
    IN  [k \in 1..Len(mine) |-> mine[k].msg]

\* The damage the first k frames of f report for player p
RECURSIVE DamageTo(_, _, _)
DamageTo(f, k, p) ==
    IF k = 0 THEN 0
    ELSE DamageTo(f, k - 1, p)
         + (IF f[k].type = "playerDamaged" /\ f[k].playerId = p
            THEN f[k].damage ELSE 0)

\* C27: every attack of a tick takes an integer in 5..10 from the health of
\* its player; playerDamaged carries the health that is left and goes to
\* every open session; playerDied for that player follows it exactly when
\* the health that is left is 0 or less.
C27_Step ==
    TickStep =>
      /\ \A c \in OpenSessions :
            LET f == FramesTo(sent', c, {"playerDamaged", "playerDied"})
            IN  \A k \in 1..Len(f) :
                  IF f[k].type = "playerDamaged"
                  THEN /\ f[k].damage \in 5..10
                       /\ f[k].playerId \in DOMAIN players
                       /\ f[k].health = players[f[k].playerId].health
                                         - DamageTo(f, k, f[k].playerId)
                       /\ f[k].health <= 0 <=>
                            /\ k < Len(f)
                            /\ f[k + 1] = [type |-> "playerDied",
                                           playerId |-> f[k].playerId]
                  ELSE /\ k > 1
                       /\ f[k - 1].type = "playerDamaged"
                       /\ f[k - 1].playerId = f[k].playerId
                       /\ f[k - 1].health <= 0
      /\ \A c \in OpenSessions, p \in DOMAIN players :
            LET f == FramesTo(sent', c, {"playerDamaged", "playerDied"})
            IN  players'[p].health = players[p].health - DamageTo(f, Len(f), p)

C27_AttackDamageAndDeath == [][C27_Step]_vars

\* C27 witness: a tick in which a player was hit for 5 three times, the last
\* two hits leaving 0 and -5, each followed by playerDied, with two sessions
\* open.
C27_Witness ==
    /\ last.op = "tick"
    /\ Cardinality(OpenSessions) = 2
    /\ LET f == FramesTo(sent, 2, {"playerDamaged", "playerDied"})
       IN  /\ Len(f) = 5
           /\ f[1].damage = 5 /\ f[1].health = 5
           /\ f[2].health = 0
           /\ f[3].type = "playerDied"
           /\ f[5].type = "playerDied"

\* C30: a monster whose position a tick changes is reported in that tick by
\* one monsterMoved with its id and new position to every open session, and
\* a monster whose position the tick leaves alone by none.
C30_Step ==
    TickStep =>
      \A i \in 1..Len(monsters), c \in OpenSessions :
         LET m == monsters'[i]
             f == SelectSeq(FramesTo(sent', c, {"monsterMoved"}),
                            LAMBDA e : e.monsterId = m.id)
         IN  IF Cell(m) # Cell(monsters[i])
             THEN f = << [type |-> "monsterMoved", monsterId |-> m.id,
                          x |-> m.x, y |-> m.y] >>
             ELSE f = << >>

C30_MovedIffPositionChanged == [][C30_Step]_vars

\* C28: a player whose health is 0 or less never gains health, and a move,
\* fireball, attack or fireballHit of its session changes nothing and sends
\* nothing.
C28_Step ==
    \A sid \in DOMAIN players \cap DOMAIN players' :
       players[sid].health <= 0 =>
         /\ players'[sid].health <= players[sid].health
         /\ (/\ last'.op \in {"move", "fireball", "attack", "fireballHit"}
             /\ last'.sid = sid)
            => /\ players' = players
               /\ monsters' = monsters
               /\ fireballs' = fireballs
               /\ sent' = << >>

C28_DeathIsTerminal == [][C28_Step]_vars

\* ------------------------------------------------ single-player claims

\* What one step of the page did to the monster and to the player.
Struck == single'.player.health < single.player.health

Stepped ==
    /\ single.monster # NoMonster
    /\ single'.monster # NoMonster
    /\ <<single'.monster.x, single'.monster.y>>
          # <<single.monster.x, single.monster.y>>

\* C22: on the single-player page the monster hits the player only while
\* it is within 1.5 tiles of the player and not before 1500 ms have passed
\* since its previous hit; it changes cell only while it is farther than
\* 1.5 tiles and not before 500 ms have passed since its previous change
\* of cell; and no update both moves it and hits the player.
C22_Step ==
    (single # Closed) =>
        /\ Struck =>
              /\ InReach(single.monster, single.player)
              /\ \/ single.hits = << >>
                 \/ single.now - single.hits[1] >= MONSTER_ATTACK_INTERVAL
        /\ Stepped =>
              /\ ~InReach(single.monster, single.player)
              /\ \/ single.steps = << >>
                 \/ single.now - single.steps[1] >= MONSTER_MOVE_INTERVAL
        /\ ~(Struck /\ Stepped)

C22_AttackOrMoveOnSchedule == [][C22_Step]_vars

\* The monster walked up to the player and has hit twice, the second time
\* one attack interval after the first.
C22_Witness ==
    /\ single # Closed
    /\ single.player.health < 100 - 10
    /\ single.steps # << >>
    /\ single.hits # << >>
    /\ single.hits[1] >= PageLoad + MONSTER_MOVE_INTERVAL
                            + MONSTER_ATTACK_INTERVAL
    /\ single.monster # NoMonster
    /\ single.monster.state = "attacking"

\* ------------------------------------------------------ editor claims

\* C23: in the map editor the history never holds more than 50 states, and
\* once init() has run the history index points at a state of the history:
\* 0 <= historyIndex < history.length.
C23_HistoryBounded ==
    (editor # Closed) =>
        /\ Len(editor.history) <= 50
        /\ 0 <= editor.historyIndex
        /\ editor.historyIndex < Len(editor.history)

\* More states were saved than the history holds, so that one was dropped
\* from its front, and the user has then gone back two steps.
C23_Witness ==
    /\ editor # Closed
    /\ Len(editor.history) = maxHistory
    /\ editor.saves > maxHistory
    /\ editor.historyIndex = maxHistory - 3

\* C24: in the map editor, after a completed edit (a stroke of the pencil
\* or of the eraser, a fill, a fill-all, a clear) one undo leaves the layers
\* exactly as they were before the edit, a redo that follows leaves them as
\* they were after it, and an edit completed after an undo leaves no state
\* to redo.
C24_UndoRestoresRedoRepeats ==
    (editor # Closed) =>
        /\ editor.mark.phase = "undone" =>
              editor.layers = editor.mark.before
        /\ editor.mark.phase = "redone" =>
              editor.layers = editor.mark.after
        /\ editor.mark.phase = "edited" =>
              editor.historyIndex = Len(editor.history) - 1

\* A step that changed the size of the map: only applying map settings
\* does so once the editor is open.
ResizeStep ==
    /\ editor # Closed
    /\ <<editor'.mapWidth, editor'.mapHeight>>
          # <<editor.mapWidth, editor.mapHeight>>

\* C25: in the map editor a resize clears the undo history: right after it
\* there is no state to go back to, and at no time can undo reach a state
\* recorded for a map of another size.
C25_Step == ResizeStep => editor'.historyIndex = 0

C25_State ==
    (editor # Closed) =>
        \A i \in 1..editor.historyIndex :
            Len(editor.history[i][1].tiles) = editor.mapHeight

C25_ResizeClearsHistory == []C25_State /\ [][C25_Step]_vars

\* ------------------------------------------------------- pace claims

\* Monster i of the sequence keeps its place in it and changes tile.
ChangesTile(i) ==
    /\ i <= Len(monsters')
    /\ monsters'[i].id = monsters[i].id
    /\ <<monsters'[i].x, monsters'[i].y>> # <<monsters[i].x, monsters[i].y>>

\* C31: each monster changes tile at most once per move interval of 500 ms,
\* counted for that monster alone: when a monster changes tile, at least
\* 500 ms have passed since the same monster changed tile before.
C31_Step ==
    \A i \in 1..Len(monsters) :
        ChangesTile(i) =>
            \/ hist.movedAt[monsters[i].id] = << >>
            \/ now - hist.movedAt[monsters[i].id][1] >= 500

C31_OneMovePerInterval == [][C31_Step]_vars

\* A monster has changed tile twice, at 501 ms and again 501 ms later,
\* the earliest the code lets it: it is two tiles below where it started.
C31_Witness ==
    /\ last.op = "tick"
    /\ now = 2 * MOVE_INTERVAL + 2
    /\ \E i \in 1..Len(monsters) :
          /\ hist.movedAt[monsters[i].id] = <<now>>
          /\ <<monsters[i].x, monsters[i].y>> = <<3, 4>>

\* C32: a tick that finds no player connected changes no monster's
\* position or health and sends nothing.
C32_Step ==
    (TickStep /\ DOMAIN players = {}) =>
        /\ Len(monsters') = Len(monsters)
        /\ \A i \in 1..Len(monsters) :
              /\ monsters'[i].id = monsters[i].id
              /\ monsters'[i].x = monsters[i].x
              /\ monsters'[i].y = monsters[i].y
              /\ monsters'[i].health = monsters[i].health
        /\ sent' = << >>
        /\ players' = players

C32_IdleWithoutPlayers == [][C32_Step]_vars

\* The only player has left, and a tick in which every monster was due
\* has run since.
C32_Witness ==
    /\ last.op = "tick"
    /\ DOMAIN players = {}
    /\ nextPlayerId > 1
    /\ now > MOVE_INTERVAL
    /\ \A i \in 1..Len(monsters) : monsters[i].lastMove = now

\* The players still connected, in the order they were inserted in
\* gameState.players.
RECURSIVE Inserted(_)
Inserted(k) ==
    IF k > Len(hist.ids) THEN << >>
    ELSE (IF hist.ids[k] \in DOMAIN players THEN <<hist.ids[k]>> ELSE << >>)
         \o Inserted(k + 1)

\* The players at the least distance from monster i.
Closest(i) ==
    {p \in DOMAIN players :
        \A q \in DOMAIN players :
            Dist2(players[p], monsters[i]) <= Dist2(players[q], monsters[i])}

\* The first of them in the order of insertion.
FirstClosest(i) ==
    LET order == Inserted(1)
        k == CHOOSE k \in 1..Len(order) :
                 /\ order[k] \in Closest(i)
                 /\ \A j \in 1..(k - 1) : order[j] \notin Closest(i)
    IN  order[k]

\* C33: of several players at the same least distance from a monster the
\* monster takes the first in the order of the player collection, who is
\* the one that connected earliest and has the lowest id; the choice
\* depends on nothing but the players and their positions.
C33_Step ==
    (TickStep /\ DOMAIN players # {}) =>
        /\ \A i \in 1..Len(monsters) :
              \A p \in Closest(i) : FirstClosest(i) <= p
        /\ \A k \in 1..Len(sent') :
              sent'[k].msg.type = "playerDamaged" =>
                  \E i \in 1..Len(monsters) :
                      sent'[k].msg.playerId = FirstClosest(i)

C33_FirstOfTheClosest == [][C33_Step]_vars

\* Two players stand on one tile at the same distance from the monsters,
\* and a tick has hit the one that connected first and not the other.
C33_Witness ==
    /\ last.op = "tick"
    /\ DOMAIN players = {1, 2}
    /\ <<players[1].x, players[1].y>> = <<players[2].x, players[2].y>>
    /\ players[1].health < PLAYER_HEALTH
    /\ players[2].health = PLAYER_HEALTH
    /\ \E k \in 1..Len(sent) :
          /\ sent[k].msg.type = "playerDamaged"
          /\ sent[k].msg.playerId = 1

\* ------------------------------------------------------ spawn claims

\* The k-th sample findSpawnPosition took for the connection handled last.
Drawn(k) == PlayerCell(Sample(last.stream, k))

\* C35: findSpawnPosition takes at most 100 samples; it returns a position
\* with 2 <= x < width - 2 and 2 <= y < height - 2; the position is
\* walkable whenever one of the samples it took, or would have taken up to
\* the hundredth, is walkable; and only when all 100 are not walkable does
\* it return the last of them, walkable or not.
C35_SpawnSearchBounded ==
    (last.op = "connection") =>
        LET pos == players[last.sid]
        IN  /\ last.attempts \in 1..100
            /\ 2 <= pos.x /\ pos.x < MAP_WIDTH - 2
            /\ 2 <= pos.y /\ pos.y < MAP_HEIGHT - 2
            /\ <<pos.x, pos.y>> = <<Drawn(last.attempts).x,
                                    Drawn(last.attempts).y>>
            /\ (\E k \in 1..100 : Walkable(Drawn(k).x, Drawn(k).y))
                   => Walkable(pos.x, pos.y)
            /\ ~Walkable(pos.x, pos.y) =>
                   /\ last.attempts = 100
                   /\ \A k \in 1..100 : ~Walkable(Drawn(k).x, Drawn(k).y)

\* A search that went through all 100 samples and returned the last, on a
\* tile that is not walkable.
C35_Witness ==
    /\ last.op = "connection"
    /\ last.attempts = SPAWN_ATTEMPTS
    /\ ~Walkable(players[last.sid].x, players[last.sid].y)

\* ---- fireball records ----

\* C34: the server keeps no record of a fireball once it has broadcast its
\* spawn: gameState.fireballs holds nothing after a cast, and does not grow
\* with the number of casts.
C34_NoFireballKept == Len(fireballs) = 0

\* ---- deaths ----

\* The playerDied frames a session was sent for a player by the last handler.
Deaths(frames, c, p) ==
    LET f == FramesTo(frames, c, {"playerDied"})
    IN  Cardinality({k \in 1..Len(f) : f[k].playerId = p})

\* C39: playerDied is broadcast at most once for a player id during the
\* session: a tick sends a session at most one playerDied for a player, and
\* none for a player whose health had reached 0 in an earlier tick.
C39_Step ==
    TickStep =>
      \A c \in OpenSessions, p \in DOMAIN players :
         Deaths(sent', c, p) <= IF players[p].health > 0 THEN 1 ELSE 0

C39_DiedOnce == [][C39_Step]_vars

\* ---- editor grid ----

\* C40: in every state of the map editor the tile grid of each layer has
\* exactly mapHeight rows of exactly mapWidth cells, also after a resize
\* followed by undo or redo.
C40_GridMatchesMapSize ==
    (editor # Closed) =>
        \A l \in 1..Len(editor.layers) :
            /\ Len(editor.layers[l].tiles) = editor.mapHeight
            /\ \A y \in 1..Len(editor.layers[l].tiles) :
                  Len(editor.layers[l].tiles[y]) = editor.mapWidth

\* ---- client and server walkability ----

\* The cells asked about: the map and one cell beyond each of its edges.
Probes == (-1..MAP_WIDTH) \X (-1..MAP_HEIGHT)

\* A page that has taken the server's init frame.
Running(c) == c \in DOMAIN game /\ game[c].running

\* The canMoveTo of the page as it is after the step and the server's
\* isValidMove give the same answer for every cell asked about.
Agree(c) ==
    \A cell \in Probes :
        canMoveTo(game'[c], cell[1], cell[2])
            = isValidMove(cell[1], cell[2])

\* C36: the client's canMoveTo and the server's isValidMove give the same
\* answer for every cell, on the map the server sent the client: they agree
\* when the page starts running and neither map changes afterwards; and so
\* every move a client made optimistically is accepted by the server when
\* its frame arrives.
C36_Step ==
    /\ map' = map
    /\ \A c \in 1..MaxPlayerId :
          (c \in DOMAIN game' /\ game'[c].running) =>
              IF Running(c) THEN game'[c].map = game[c].map ELSE Agree(c)
    /\ last'.op = "move" =>
          /\ players'[last'.sid].x = last'.x
          /\ players'[last'.sid].y = last'.y

C36_ClientAndServerAgree == [][C36_Step]_vars

\* C36 witness: the server has just accepted the move a page had made
\* optimistically, and the page and the server hold the player on the same
\* tile, below a tile both refuse.
C36_Witness ==
    /\ last.op = "move"
    /\ Running(last.sid)
    /\ toServer[last.sid] = << >>
    /\ LET me == game[last.sid].players[last.sid]
       IN  /\ <<me.x, me.y>> = <<last.x, last.y>>
           /\ <<players[last.sid].x, players[last.sid].y>> = <<me.x, me.y>>
           /\ ~canMoveTo(game[last.sid], me.x, me.y - 1)
           /\ ~isValidMove(me.x, me.y - 1)

\* ---- monsters and timers ----

\* C37: after the start of the server the live monsters and the pending
\* respawn timers are together always exactly MONSTER_COUNT, whatever the
\* order of attacks, fireball hits, ticks and respawn callbacks.
C37_MonstersPlusTimers == Len(monsters) + Len(timers) = MONSTER_COUNT

\* ---- casts and hits ----

\* C38: one fireball cast that hits a monster has the fireball damage
\* applied to that monster at most once, however many pages simulate the
\* cast and although the caster holds its own fireball and the server's
\* echo: a live monster has taken no more fireball hits than there were
\* casts.
C38_OneHitPerCast ==
    \A i \in 1..Len(monsters) : hist.fb[monsters[i].id] <= Len(fireballs)

====
